---- MODULE Spec2Model ----
(***************************************************************************)
(* HLS conversion service: the BullMQ queue (queue.js), the worker         *)
(* processor (worker.js) and the pipeline processVideoToHLS of the ES      *)
(* module variant of hlsVideoProcessor.js, with its axios retry            *)
(* interceptor, its S3 upload and its scratch workspace.                   *)
(***************************************************************************)
EXTENDS Integers, Sequences, FiniteSets, TLC

\* ---------------------------------------------------------------- bounds
MaxDuration == 1
MaxSourceSide == 16
MaxRuns == 2

\* ------------------------------------------------------ program constants
attempts == 3
maxRetries == 3
concurrency == 1
maxStalledCount == 1

\* The jobs submitted, named by their reelId; folderPath is out/<reelId>.
Jobs == {"42", "43"}
NoJob == "none"

\* Strings that are parsed or searched are sequences of characters.
QUALITY_CONFIGS ==
    << [name |-> "360p",  maxHeight |-> 360,
        videoBitrate |-> <<"5", "0", "0", "k">>,      audioBitrate |-> <<"6", "4", "k">>],
       [name |-> "480p",  maxHeight |-> 480,
        videoBitrate |-> <<"8", "0", "0", "k">>,      audioBitrate |-> <<"9", "6", "k">>],
       [name |-> "720p",  maxHeight |-> 720,
        videoBitrate |-> <<"2", "5", "0", "0", "k">>, audioBitrate |-> <<"1", "2", "8", "k">>],
       [name |-> "1080p", maxHeight |-> 1080,
        videoBitrate |-> <<"5", "0", "0", "0", "k">>, audioBitrate |-> <<"1", "9", "2", "k">>] >>

NConfigs == Len(QUALITY_CONFIGS)

RECURSIVE Flatten(_)
Flatten(ss) == IF ss = << >> THEN << >> ELSE Head(ss) \o Flatten(Tail(ss))

\* `${baseName}_${config.name}.mp4`
Mp4Name(q) ==
    CASE q = "360p"  -> "video_360p.mp4"
      [] q = "480p"  -> "video_480p.mp4"
      [] q = "720p"  -> "video_720p.mp4"
      [] q = "1080p" -> "video_1080p.mp4"

\* segment_%03d.ts
SegmentName(i) ==
    CASE i = 0 -> "segment_000.ts"
      [] i = 1 -> "segment_001.ts"
      [] i = 2 -> "segment_002.ts"
      [] i = 3 -> "segment_003.ts"
      [] OTHER -> "segment_004.ts"

\* ------------------------------------------------------ scratch workspace
\* Paths are tuples of names below the directory made by tmp.dirSync.
tmpDir == << >>
inputTmp == <<"input">>
outputDir == <<"output">>

IsPrefix(p, q) == Len(p) <= Len(q) /\ SubSeq(q, 1, Len(p)) = p

\* Faulty variant of RemoveTree: removes the path alone, as rmdir does.
RemovePathOnly(fs, p) == fs \ {p}

\* fs.remove(path) / rimraf: the path and everything below it
RemoveTree(fs, p) == { q \in fs : ~IsPrefix(p, q) }

thumbnailPath == outputDir \o <<"thumbnail.jpg">>
masterPlaylistPath == outputDir \o <<"master.m3u8">>
qualityDir(q) == outputDir \o <<q>>
outputPath(q) == qualityDir(q) \o <<Mp4Name(q)>>
segmentDir(q) == qualityDir(q) \o <<"segments">>
variantPlaylist(q) == segmentDir(q) \o <<"playlist.m3u8">>
segmentPath(q, i) == segmentDir(q) \o <<SegmentName(i)>>

Directories ==
    {tmpDir, outputDir} \cup { qualityDir(QUALITY_CONFIGS[i].name) : i \in 1..NConfigs }
                        \cup { segmentDir(QUALITY_CONFIGS[i].name) : i \in 1..NConfigs }

\* ------------------------------------------------------------ destination
\* An object of the bucket: key = <<folderPath>> \o relative path.
Obj(key, body) == [key |-> key, body |-> body]
savePath(j) == <<j>>

\* PutObject overwrites the object of the same key.
PutObject(store, key, body) == { o \in store : o.key # key } \cup { Obj(key, body) }
DeleteObject(store, key) == { o \in store : o.key # key }

\* Objects a run before the modelled ones may have left at a prefix.
StaleKeys == { <<"master.m3u8">>, <<"master.mpd">>, <<"360p", "segments", "segment_004.ts">> }

VARIABLES
    jobState,        \* queue state of each job
    attemptsMade,    \* job.attemptsMade
    videoUrlOk,      \* job.data.videoUrl parses as a URL
    duration,        \* length in seconds of the video at job.data.videoUrl
    active,          \* the job the worker's processor is running
    pc,              \* position of the processor / pipeline
    k,               \* index of the quality being processed
    processingError, \* the local of processVideoToHLS
    outcome,         \* what processVideoToHLS returned or threw
    scratch,         \* paths existing in the scratch workspace
    retryCount,      \* config.retryCount of the request in flight
    delay,           \* ms the interceptor waited before issuing it again
    files,           \* listing read by uploadToS3
    fileIdx,         \* position of uploadToS3 in the listing
    uploaded,        \* keys of the uploads done by uploadToS3, in order
    playlist,        \* lines written by createMasterPlaylist
    inputFileExists, outputDirExists,  \* existsSync results in finally
    cleanupErrors,   \* cleanup steps whose removal threw
    cleanupTried,    \* cleanup steps reached
    sent,            \* status notifications attempted by this execution
    statusUpdateError, \* the status request of this execution was abandoned
    dest,            \* the bucket
    destAtStart,     \* the bucket when this execution started
    segmented,       \* qualities segmented by this execution
    notifs,          \* per job: notifications attempted, in order
    executions,      \* per job: number of times the processor started
    stalledCounter,  \* per job: times it was recovered from a dead worker
    dest0,           \* the bucket before any job was submitted
    videoInfo,       \* per job: width and height of the video at job.data.videoUrl
    targetSize,      \* the sizes the profiles were encoded at, in ladder order
    filename,        \* the argument of a call of getContentType
    contentType,     \* what the call returned
    body,            \* req.body of the POST /create-job/reels-processing request
    response,        \* status code of the answer to that request
    jobOpts,         \* per job: the options it was added with
    jobData,         \* per job: job.data
    runs,            \* per call of processVideoToHLS: its position and its tmpDir.name
    fsDisk,          \* the paths on the disk of the host, each with the call that made it
    usedNames,       \* the names tmp.dirSync has returned
    accessed,        \* per call: the paths it found, read, overwrote or deleted
    cjs,             \* the call of processVideoToHLS of src/hlsVideoProcessor.js
    queued,          \* the jobs of the queue, in the order its getters return them
    query,           \* req.query of the GET /jobs request
    listing,         \* the answer to that request
    direct           \* the request to the route that works without the queue

fsVars == << runs, fsDisk, usedNames, accessed >>
listVars == << queued, query, listing >>
sideVars == << cjs, listVars, direct >>
inputVars == << videoInfo, filename, contentType, body, fsVars, sideVars >>
apiVars == << response, jobOpts, jobData >>
queueVars == << jobState, attemptsMade, videoUrlOk, duration, active, executions,
               stalledCounter, dest0, inputVars, apiVars >>
stageVars == << k, segmented, playlist, targetSize >>
uploadVars == << files, fileIdx, uploaded >>
requestVars == << retryCount, delay >>
cleanupVars == << inputFileExists, outputDirExists, cleanupErrors, cleanupTried >>
statusVars == << sent, statusUpdateError, notifs >>
vars == << jobState, attemptsMade, videoUrlOk, duration, active, executions, pc, k,
           processingError, outcome, scratch, retryCount, files, fileIdx, inputFileExists,
           outputDirExists, cleanupErrors, cleanupTried, sent, statusUpdateError,
           destAtStart, segmented, dest, notifs, delay, uploaded, playlist,
           stalledCounter, dest0, videoInfo, targetSize, filename, contentType,
           body, response, jobOpts, jobData,
           runs, fsDisk, usedNames, accessed, cjs, queued, query, listing,
           direct >>

\* JavaScript's !v for the values a field of a JSON body or of job.data takes
\* here: absent, null, the empty string, a non-empty string.
Undefined == "undefined"
Null == "null"
Falsy(v) == v \in {Undefined, Null, ""}

\* The calls of processVideoToHLS on one host: by the processor of the worker
\* for an attempt of a job, or by the route that works without the queue.
Runs == 1..MaxRuns
NoDir == << >>

\* No answer has been sent.
NoResponse == 0
NoData == [data |-> << >>, command |-> << >>,
           reelId |-> Undefined, videoUrl |-> Undefined, folderPath |-> Undefined]

\* processVideoToHLS of src/hlsVideoProcessor.js has not been called: no error
\* caught, no completion pending, nothing posted, nothing on the disk.
CjsNotCalled ==
    [pc |-> "idle", k |-> 0, error |-> "null", completion |-> "none",
     posts |-> << >>, inputTmp |-> FALSE, outputDir |-> FALSE]

\* No request has come to POST /create-job/reels-processing-without-queue.
NoDirectRequest == [at |-> "idle", code |-> NoResponse]

InitCommon ==
    /\ jobState = [j \in Jobs |-> "none"]
    /\ attemptsMade = [j \in Jobs |-> 0]
    /\ videoUrlOk = [j \in Jobs |-> TRUE]
    /\ duration = [j \in Jobs |-> 1]
    /\ active = NoJob
    /\ executions = [j \in Jobs |-> 0]
    /\ pc = "idle"
    /\ k = 0
    /\ processingError = "null"
    /\ outcome = "none"
    /\ scratch = {}
    /\ retryCount = 0
    /\ delay = 0
    /\ files = << >>
    /\ fileIdx = 0
    /\ uploaded = << >>
    /\ playlist = << >>
    /\ stalledCounter = [j \in Jobs |-> 0]
    /\ inputFileExists = FALSE
    /\ outputDirExists = FALSE
    /\ cleanupErrors = {}
    /\ cleanupTried = {}
    /\ sent = << >>
    /\ statusUpdateError = FALSE
    /\ \E stale \in {{}, StaleKeys} :
          dest = { Obj(savePath(j) \o key, "old") : j \in Jobs, key \in stale }
    /\ destAtStart = dest
    /\ dest0 = dest
    /\ segmented = {}
    /\ notifs = [j \in Jobs |-> << >>]
    /\ targetSize = << >>
    /\ response = NoResponse
    /\ jobOpts = [j \in Jobs |-> Undefined]
    /\ jobData = [j \in Jobs |-> NoData]
    /\ runs = [r \in Runs |-> [at |-> "none", dir |-> NoDir]]
    /\ fsDisk = {}
    /\ usedNames = {}
    /\ accessed = [r \in Runs |-> {}]
    /\ cjs = CjsNotCalled
    /\ direct = NoDirectRequest

\* The sources are 1920x1080 videos.
InitSource == videoInfo = [j \in Jobs |-> [width |-> 1920, height |-> 1080]]

NoType == "none"

\* No call of getContentType is observed.
\* The client posts the three fields of reel 42.
InitBody == body = [reelId |-> "42", videoUrl |-> "videoUrl", folderPath |-> "folderPath"]

InitContentType ==
    /\ filename = << "m", "a", "s", "t", "e", "r", ".", "m", "3", "u", "8" >>
    /\ contentType = NoType

\* A query parameter the client did not supply.
Absent == << >>

\* No GET /jobs request is observed.
InitList ==
    /\ queued = << >>
    /\ query = [status |-> "all", limit |-> Absent, offset |-> Absent]
    /\ listing = << >>

Init ==
    /\ InitCommon
    /\ InitSource
    /\ InitContentType
    /\ InitBody
    /\ InitList

\* ------------------------------------------------------------------ queue
\* Faulty variant of MissingRequired: only a body without any of the fields
\* is refused.
MissingRequiredAll(b) == Falsy(b.reelId) /\ Falsy(b.videoUrl) /\ Falsy(b.folderPath)

\* if (!reelId || !videoUrl || !folderPath)
MissingRequired(b) == Falsy(b.reelId) \/ Falsy(b.videoUrl) \/ Falsy(b.folderPath)

\* The options the route passes to videoQueue.add.
AddOptions == [attempts |-> attempts, backoff |-> [type |-> "exponential", delay |-> 1000]]

\* The data the route passes to videoQueue.add (the timestamp is left out).
AddData(b) ==
    [data |-> << >>, command |-> << >>,
     reelId |-> b.reelId, videoUrl |-> b.videoUrl, folderPath |-> b.folderPath]

\* POST /create-job/reels-processing with the three fields: videoQueue.add, and
\* the answer carries the job id.
CreateJob(j) ==
    /\ response = NoResponse
    /\ ~MissingRequired(body)
    /\ body.reelId = j
    /\ jobState[j] = "none"
    /\ jobState' = [jobState EXCEPT ![j] = "waiting"]
    /\ jobOpts' = [jobOpts EXCEPT ![j] = AddOptions]
    /\ jobData' = [jobData EXCEPT ![j] = AddData(body)]
    /\ response' = 200
    /\ \E ok \in BOOLEAN : videoUrlOk' = [videoUrlOk EXCEPT ![j] = ok]
    /\ \E d \in 1..MaxDuration : duration' = [duration EXCEPT ![j] = d]
    /\ UNCHANGED << attemptsMade, active, executions, stalledCounter, dest0, inputVars,
                    pc, processingError, outcome, scratch, requestVars, dest,
                    destAtStart, stageVars, uploadVars, cleanupVars, statusVars >>

\* POST /create-job/reels-processing without one of the fields: 400, and
\* nothing is added.
CreateJobRejected ==
    /\ response = NoResponse
    /\ MissingRequired(body)
    /\ response' = 400
    /\ UNCHANGED << jobState, attemptsMade, videoUrlOk, duration, active, executions,
                    stalledCounter, dest0, inputVars, jobOpts, jobData, pc,
                    processingError, outcome, scratch, requestVars, dest, destAtStart,
                    stageVars, uploadVars, cleanupVars, statusVars >>

\* POST /create-job/reels-processing with the three fields, videoQueue.add
\* rejecting: the catch answers 500.
CreateJobQueueError ==
    /\ response = NoResponse
    /\ ~MissingRequired(body)
    /\ response' = 500
    /\ UNCHANGED << jobState, attemptsMade, videoUrlOk, duration, active, executions,
                    stalledCounter, dest0, inputVars, jobOpts, jobData, pc,
                    processingError, outcome, scratch, requestVars, dest, destAtStart,
                    stageVars, uploadVars, cleanupVars, statusVars >>

\* The three fields of one format of job.data.
Fields(d) == [reelId |-> d.reelId, videoUrl |-> d.videoUrl, folderPath |-> d.folderPath]

\* Faulty variant of Extract: each field from the first format that has it.
ExtractMixing(d) ==
    LET formats == d.data \o d.command \o << Fields(d) >>
        First(f) == LET has == { i \in 1..Len(formats) : ~Falsy(formats[i][f]) }
                    IN  IF has = {} THEN Undefined
                        ELSE formats[CHOOSE i \in has : \A h \in has : i <= h][f]
    IN  [reelId |-> First("reelId"), videoUrl |-> First("videoUrl"),
         folderPath |-> First("folderPath")]

\* The processor's reading of job.data: the fields of job.data.data when there
\* is one, else of job.data.command when there is one, else of job.data. An
\* object of a format is a sequence of length one, an absent one is empty.
Extract(d) ==
    IF d.data # << >> THEN Fields(d.data[1])
    ELSE IF d.command # << >> THEN Fields(d.command[1])
    ELSE Fields(d)

\* if (!reelId || !videoUrl || !folderPath) of the processor
MissingFields(f) == Falsy(f.reelId) \/ Falsy(f.videoUrl) \/ Falsy(f.folderPath)

\* Faulty variant of WorkerHasFreeSlot: the worker takes jobs whatever it runs.
WorkerHasFreeSlotAlways == TRUE

\* The worker fetches a job only while it runs fewer than `concurrency` jobs.
WorkerHasFreeSlot == Cardinality({ i \in Jobs : jobState[i] = "active" }) < concurrency

\* The worker takes a waiting job when fewer than `concurrency` are running;
\* the processor finds the three fields and is about to call processVideoToHLS.
Dequeue(j) ==
    /\ WorkerHasFreeSlot
    /\ jobState[j] = "waiting"
    /\ ~MissingFields(Extract(jobData[j]))
    /\ jobState' = [jobState EXCEPT ![j] = "active"]
    /\ active' = j
    /\ executions' = [executions EXCEPT ![j] = @ + 1]
    /\ pc' = "start"
    /\ UNCHANGED << attemptsMade, videoUrlOk, duration, stalledCounter, dest0, inputVars,
                    apiVars, processingError, outcome, scratch, requestVars, dest,
                    destAtStart, stageVars, uploadVars, cleanupVars, statusVars >>

\* The worker takes a waiting job and the processor does not find the three
\* fields: it throws before processVideoToHLS is called.
DequeueMissingFields(j) ==
    /\ WorkerHasFreeSlot
    /\ jobState[j] = "waiting"
    /\ MissingFields(Extract(jobData[j]))
    /\ jobState' = [jobState EXCEPT ![j] = "active"]
    /\ active' = j
    /\ executions' = [executions EXCEPT ![j] = @ + 1]
    /\ pc' = "threw"
    /\ outcome' = "Missing required fields in job data"
    /\ UNCHANGED << attemptsMade, videoUrlOk, duration, stalledCounter, dest0, inputVars,
                    apiVars, processingError, scratch, requestVars, dest,
                    destAtStart, stageVars, uploadVars, cleanupVars, statusVars >>

\* A delayed job becomes waiting again when its backoff has elapsed.
Promote(j) ==
    /\ jobState[j] = "delayed"
    /\ jobState' = [jobState EXCEPT ![j] = "waiting"]
    /\ UNCHANGED << attemptsMade, videoUrlOk, duration, active, executions, stalledCounter,
                    dest0, inputVars, apiVars, pc, processingError, outcome, scratch,
                    requestVars, dest, destAtStart, stageVars, uploadVars, cleanupVars,
                    statusVars >>

\* Faulty variant of StateAfterFailure: one retry too many.
StateAfterFailureOffByOne(made) == IF made <= attempts THEN "delayed" ELSE "failed"

\* What the queue does with a job whose processor threw.
StateAfterFailure(made) == IF made < attempts THEN "delayed" ELSE "failed"

\* Values of the execution's locals before processVideoToHLS is entered.
ResetExecution ==
    /\ k' = 0
    /\ processingError' = "null"
    /\ outcome' = "none"
    /\ scratch' = {}
    /\ retryCount' = 0
    /\ delay' = 0
    /\ files' = << >>
    /\ fileIdx' = 0
    /\ uploaded' = << >>
    /\ playlist' = << >>
    /\ targetSize' = << >>
    /\ inputFileExists' = FALSE
    /\ outputDirExists' = FALSE
    /\ cleanupErrors' = {}
    /\ cleanupTried' = {}
    /\ sent' = << >>
    /\ statusUpdateError' = FALSE
    /\ segmented' = {}
    /\ destAtStart' = dest

\* Faulty variant of StateAfterSuccess: the record of a completed job is kept.
StateAfterSuccessKept == "completed"

\* What the queue does with a job whose processor returned: removeOnComplete
\* being set, the job is completed and its record removed at once.
StateAfterSuccess == "removed"

\* The processor returned: the job is completed and, removeOnComplete being set,
\* its record is removed.
WorkerCompleted ==
    /\ pc = "returned"
    /\ jobState' = [jobState EXCEPT ![active] = StateAfterSuccess]
    /\ active' = NoJob
    /\ pc' = "idle"
    /\ ResetExecution
    /\ UNCHANGED << attemptsMade, videoUrlOk, duration, executions, stalledCounter, dest0,
                    inputVars, apiVars, dest, notifs >>

\* The processor threw: the attempt is counted, the job is delayed for a retry
\* or, with the attempts used up, kept as failed (removeOnFail: false).
WorkerFailed ==
    /\ pc = "threw"
    /\ attemptsMade' = [attemptsMade EXCEPT ![active] = @ + 1]
    /\ jobState' = [jobState EXCEPT ![active] = StateAfterFailure(attemptsMade[active] + 1)]
    /\ active' = NoJob
    /\ pc' = "idle"
    /\ ResetExecution
    /\ UNCHANGED << videoUrlOk, duration, executions, stalledCounter, dest0, inputVars,
                    apiVars, dest, notifs >>

\* The worker process is terminated while it runs job j: nothing of the
\* execution goes on, and the queue, finding the job stalled, moves it back to
\* waiting, or to failed once it has stalled more than maxStalledCount times.
\* The processor of the next worker process starts from its initial values.
Crash(j) ==
    /\ active = j
    /\ jobState[j] = "active"
    /\ jobState' = [jobState EXCEPT ![j] =
                       IF stalledCounter[j] < maxStalledCount THEN "waiting" ELSE "failed"]
    /\ stalledCounter' = [stalledCounter EXCEPT ![j] = @ + 1]
    /\ active' = NoJob
    /\ pc' = "idle"
    /\ ResetExecution
    /\ UNCHANGED << attemptsMade, videoUrlOk, duration, executions, dest0, inputVars,
                    apiVars, dest, notifs >>

\* --------------------------------------------------------------- pipeline
\* Faulty variant of NextStage: the stale manifest is deleted before the
\* download instead of before the upload.
NextStageDeleteFirst(stage) ==
    CASE stage = "start"           -> "ensureOutputDir"
      [] stage = "ensureOutputDir" -> "deleteStale"
      [] stage = "deleteStale"     -> "downloadRequest"
      [] stage = "downloadRequest" -> "downloadPipe"
      [] stage = "downloadPipe"    -> "probe"
      [] stage = "probe"           -> "thumbnail"
      [] stage = "thumbnail"       -> "qualityDirs"
      [] stage = "qualityDirs"     -> "encode"
      [] stage = "encode"          -> "segment"
      [] stage = "segment"         -> "masterPlaylist"
      [] stage = "masterPlaylist"  -> "uploadCheck"
      [] stage = "uploadCheck"     -> "uploadFile"
      [] stage = "uploadFile"      -> "verify"
      [] stage = "verify"          -> "finally"

\* The order of the statements of the try block.
NextStage(stage) ==
    CASE stage = "start"           -> "ensureOutputDir"
      [] stage = "ensureOutputDir" -> "downloadRequest"
      [] stage = "downloadRequest" -> "downloadPipe"
      [] stage = "downloadPipe"    -> "probe"
      [] stage = "probe"           -> "thumbnail"
      [] stage = "thumbnail"       -> "qualityDirs"
      [] stage = "qualityDirs"     -> "encode"
      [] stage = "encode"          -> "segment"
      [] stage = "segment"         -> "masterPlaylist"
      [] stage = "masterPlaylist"  -> "deleteStale"
      [] stage = "deleteStale"     -> "uploadCheck"
      [] stage = "uploadCheck"     -> "uploadFile"
      [] stage = "uploadFile"      -> "verify"
      [] stage = "verify"          -> "finally"

\* Faulty variant of Interceptor: one retry more than maxRetries.
InterceptorOneMore(rc) ==
    IF rc <= maxRetries
    THEN [retry |-> TRUE, retryCount |-> rc + 1, delay |-> (2 ^ (rc + 1)) * 1000]
    ELSE [retry |-> FALSE, retryCount |-> rc, delay |-> 0]

\* The response interceptor of axiosInstance, given config.retryCount of the
\* failed request: whether the request is issued again, the new count, and the
\* ms waited before it is issued again.
Interceptor(rc) ==
    IF rc < maxRetries
    THEN [retry |-> TRUE, retryCount |-> rc + 1, delay |-> (2 ^ (rc + 1)) * 1000]
    ELSE [retry |-> FALSE, retryCount |-> rc, delay |-> 0]

\* A request is made with a config of its own: { retryCount: 0 }.
NewRequest ==
    /\ retryCount' = 0
    /\ delay' = 0

\* Faulty variant of Catch: the 'failed' request goes on with the retry count
\* of the request made before it.
CatchKeepsRetryCount(error) ==
    /\ processingError' = error
    /\ pc' = "postFailed"
    /\ UNCHANGED << retryCount, delay >>

\* The request is settled: its config, with the retry count, is dropped.
RequestSettled ==
    /\ retryCount' = 0
    /\ delay' = 0

\* catch (error) { processingError = error; ... }
Catch(error) ==
    /\ processingError' = error
    /\ pc' = "postFailed"
    /\ NewRequest

\* new URL(s3Url) throws: processVideoToHLS rejects before its try block.
StartBadUrl ==
    /\ pc = "start"
    /\ ~videoUrlOk[active]
    /\ pc' = "threw"
    /\ outcome' = "url"
    /\ UNCHANGED << queueVars, processingError, scratch, requestVars, dest, destAtStart,
                    stageVars, uploadVars, cleanupVars, statusVars >>

\* tmp.dirSync throws: processVideoToHLS rejects before its try block.
StartTmpFail ==
    /\ pc = "start"
    /\ videoUrlOk[active]
    /\ pc' = "threw"
    /\ outcome' = "tmp"
    /\ UNCHANGED << queueVars, processingError, scratch, requestVars, dest, destAtStart,
                    stageVars, uploadVars, cleanupVars, statusVars >>

\* tmp.dirSync creates the workspace root; the try block is entered.
Start ==
    /\ pc = "start"
    /\ videoUrlOk[active]
    /\ scratch' = {tmpDir}
    /\ pc' = NextStage("start")
    /\ UNCHANGED << queueVars, processingError, outcome, requestVars, dest, destAtStart,
                    stageVars, uploadVars, cleanupVars, statusVars >>

EnsureOutputDir ==
    /\ pc = "ensureOutputDir"
    /\ scratch' = scratch \cup {outputDir}
    /\ pc' = NextStage("ensureOutputDir")
    /\ UNCHANGED << queueVars, processingError, outcome, requestVars, dest, destAtStart,
                    stageVars, uploadVars, cleanupVars, statusVars >>

EnsureOutputDirFail ==
    /\ pc = "ensureOutputDir"
    /\ Catch("ensureDir")
    /\ UNCHANGED << queueVars, outcome, scratch, dest, destAtStart, stageVars, uploadVars,
                    cleanupVars, statusVars >>

\* The GET of the source answers 2xx.
DownloadRequest ==
    /\ pc = "downloadRequest"
    /\ pc' = NextStage("downloadRequest")
    /\ RequestSettled
    /\ UNCHANGED << queueVars, processingError, outcome, scratch, dest,
                    destAtStart, stageVars, uploadVars, cleanupVars, statusVars >>

\* The GET fails and the interceptor issues it again.
DownloadRetry ==
    /\ pc = "downloadRequest"
    /\ Interceptor(retryCount).retry
    /\ retryCount' = Interceptor(retryCount).retryCount
    /\ delay' = Interceptor(retryCount).delay
    /\ UNCHANGED << queueVars, pc, processingError, outcome, scratch, dest, destAtStart,
                    stageVars, uploadVars, cleanupVars, statusVars >>

\* The GET fails and the interceptor rejects: 'Video download failed'.
DownloadRequestFail ==
    /\ pc = "downloadRequest"
    /\ ~Interceptor(retryCount).retry
    /\ Catch("download")
    /\ UNCHANGED << queueVars, outcome, scratch, dest, destAtStart, stageVars, uploadVars,
                    cleanupVars, statusVars >>

\* response.data.pipe(writer): the writer emits 'finish'.
DownloadPipe ==
    /\ pc = "downloadPipe"
    /\ scratch' = scratch \cup {inputTmp}
    /\ pc' = NextStage("downloadPipe")
    /\ UNCHANGED << queueVars, processingError, outcome, requestVars, dest, destAtStart,
                    stageVars, uploadVars, cleanupVars, statusVars >>

\* The writer emits 'error'; the file may or may not have been created.
DownloadWriterError ==
    /\ pc = "downloadPipe"
    /\ \E created \in BOOLEAN :
          scratch' = IF created THEN scratch \cup {inputTmp} ELSE scratch
    /\ Catch("download")
    /\ UNCHANGED << queueVars, outcome, dest, destAtStart, stageVars, uploadVars,
                    cleanupVars, statusVars >>

\* The response stream emits 'error': pipe() does not forward it to the writer,
\* nothing listens for it, and the awaited promise is never settled.
DownloadStreamError ==
    /\ pc = "downloadPipe"
    /\ \E created \in BOOLEAN :
          scratch' = IF created THEN scratch \cup {inputTmp} ELSE scratch
    /\ pc' = "hung"
    /\ UNCHANGED << queueVars, processingError, outcome, requestVars, dest, destAtStart,
                    stageVars, uploadVars, cleanupVars, statusVars >>

\* getVideoInfo
Probe ==
    /\ pc = "probe"
    /\ pc' = NextStage("probe")
    /\ UNCHANGED << queueVars, processingError, outcome, scratch, requestVars, dest,
                    destAtStart, stageVars, uploadVars, cleanupVars, statusVars >>

ProbeFail ==
    /\ pc = "probe"
    /\ Catch("probe")
    /\ UNCHANGED << queueVars, outcome, scratch, dest, destAtStart, stageVars, uploadVars,
                    cleanupVars, statusVars >>

Thumbnail ==
    /\ pc = "thumbnail"
    /\ scratch' = scratch \cup {thumbnailPath}
    /\ pc' = NextStage("thumbnail")
    /\ UNCHANGED << queueVars, processingError, outcome, requestVars, dest, destAtStart,
                    stageVars, uploadVars, cleanupVars, statusVars >>

ThumbnailFail ==
    /\ pc = "thumbnail"
    /\ Catch("thumbnail")
    /\ UNCHANGED << queueVars, outcome, scratch, dest, destAtStart, stageVars, uploadVars,
                    cleanupVars, statusVars >>

\* for (const config of QUALITY_CONFIGS) await fs.ensureDir(qualityDir)
QualityDirs ==
    /\ pc = "qualityDirs"
    /\ scratch' = scratch \cup { qualityDir(QUALITY_CONFIGS[i].name) : i \in 1..NConfigs }
    /\ k' = 1
    /\ pc' = NextStage("qualityDirs")
    /\ UNCHANGED << queueVars, processingError, outcome, requestVars, dest, destAtStart,
                    segmented, playlist, targetSize, uploadVars, cleanupVars, statusVars >>

\* ensureDir throws for the n-th directory; the ones before it exist.
QualityDirsFail ==
    /\ pc = "qualityDirs"
    /\ \E n \in 1..NConfigs :
          scratch' = scratch \cup { qualityDir(QUALITY_CONFIGS[i].name) : i \in 1..(n - 1) }
    /\ Catch("ensureDir")
    /\ UNCHANGED << queueVars, outcome, dest, destAtStart, stageVars, uploadVars,
                    cleanupVars, statusVars >>

\* Math.round(num / den) for num >= 0, den > 0: the nearest integer, a half
\* going up.
Round(num, den) == (2 * num + den) \div (2 * den)

\* Faulty variant of EnsureEven: the width is left as rounded.
EnsureEvenSkipped(width) == width

\* if (targetWidth % 2 !== 0) targetWidth += 1
EnsureEven(width) == IF width % 2 # 0 THEN width + 1 ELSE width

\* The size a profile is encoded at for a source of the given width and
\* height: targetHeight = config.maxHeight, targetWidth = Math.round(
\* targetHeight * aspectRatio) made even, aspectRatio being width / height.
TargetSize(config, info) ==
    << EnsureEven(Round(config.maxHeight * info.width, info.height)), config.maxHeight >>

\* Faulty variant of AfterEncode: the whole ladder is encoded before the first
\* quality is segmented.
AfterEncodeWholeLadder(i) ==
    IF i < NConfigs THEN [pc |-> "encode", k |-> i + 1] ELSE [pc |-> "segment", k |-> 1]

\* Where the loop over QUALITY_CONFIGS goes after encoding quality i: the same
\* quality is segmented next.
AfterEncode(i) == [pc |-> NextStage("encode"), k |-> i]

\* ffmpeg ... .save(outputPath) ends.
Encode ==
    /\ pc = "encode"
    /\ targetSize' = Append(targetSize, TargetSize(QUALITY_CONFIGS[k], videoInfo[active]))
    /\ scratch' = scratch \cup {outputPath(QUALITY_CONFIGS[k].name)}
    /\ pc' = AfterEncode(k).pc
    /\ k' = AfterEncode(k).k
    /\ UNCHANGED << queueVars, processingError, outcome, requestVars, dest, destAtStart,
                    segmented, playlist, uploadVars, cleanupVars, statusVars >>

EncodeFail ==
    /\ pc = "encode"
    /\ Catch("encode")
    /\ UNCHANGED << queueVars, outcome, scratch, dest, destAtStart, stageVars, uploadVars,
                    cleanupVars, statusVars >>

\* Faulty variant of AfterSegment: the loop is left after its first turn.
AfterSegmentLeavesLoop(i) == [pc |-> NextStage("segment"), k |-> i]

\* Where the loop over QUALITY_CONFIGS goes after segmenting quality i.
AfterSegment(i) ==
    IF i < NConfigs THEN [pc |-> "encode", k |-> i + 1]
                    ELSE [pc |-> NextStage("segment"), k |-> i]

\* ensureDir(segmentDir); execAsync(ffmpegCmd) succeeds.
Segment ==
    /\ pc = "segment"
    /\ LET q == QUALITY_CONFIGS[k].name IN
          /\ scratch' = scratch \cup {segmentDir(q), variantPlaylist(q)}
                                \cup { segmentPath(q, i) : i \in 0..(duration[active] - 1) }
          /\ segmented' = segmented \cup {q}
    /\ k' = AfterSegment(k).k
    /\ pc' = AfterSegment(k).pc
    /\ UNCHANGED << queueVars, processingError, outcome, requestVars, dest, destAtStart,
                    playlist, targetSize, uploadVars, cleanupVars, statusVars >>

SegmentFail ==
    /\ pc = "segment"
    /\ scratch' = scratch \cup {segmentDir(QUALITY_CONFIGS[k].name)}
    /\ Catch("segment")
    /\ UNCHANGED << queueVars, outcome, dest, destAtStart, stageVars, uploadVars,
                    cleanupVars, statusVars >>

Digits == {"0", "1", "2", "3", "4", "5", "6", "7", "8", "9"}

DigitValue(c) ==
    CASE c = "0" -> 0 [] c = "1" -> 1 [] c = "2" -> 2 [] c = "3" -> 3 [] c = "4" -> 4
      [] c = "5" -> 5 [] c = "6" -> 6 [] c = "7" -> 7 [] c = "8" -> 8 [] c = "9" -> 9

\* parseInt(str) of a string that starts with a digit: the number written by
\* its leading digits, what follows them being ignored. `acc` is the number
\* read so far.
RECURSIVE ParseDigits(_, _)
ParseDigits(str, acc) ==
    IF str = << >> \/ Head(str) \notin Digits
    THEN acc
    ELSE ParseDigits(Tail(str), 10 * acc + DigitValue(Head(str)))

parseInt(str) == ParseDigits(str, 0)

\* Faulty variant of bandwidth: the sum of the bitrates as written, in kbit/s.
bandwidthUnscaled(config) ==
    parseInt(config.videoBitrate) + parseInt(config.audioBitrate)

\* const bandwidth = (parseInt(videoBitrate) + parseInt(audioBitrate)) * 1000
bandwidth(config) ==
    (parseInt(config.videoBitrate) + parseInt(config.audioBitrate)) * 1000

\* A line of a playlist: a tag with its attribute values, or the URI of a
\* variant playlist (a path relative to the master playlist).
Line(tag, value) == [tag |-> tag, value |-> value]

\* Faulty variant of playlistContent: the tags of the whole ladder first, the
\* URIs after them.
playlistContentTagsFirst(configs) ==
    << Line("#EXTM3U", << >>), Line("#EXT-X-VERSION", <<3>>) >>
    \o [i \in 1..Len(configs) |->
           Line("#EXT-X-STREAM-INF",
                << bandwidth(configs[i]), configs[i].maxHeight, configs[i].maxHeight >>)]
    \o [i \in 1..Len(configs) |->
           Line("URI", << configs[i].name, "segments", "playlist.m3u8" >>)]

\* The text createMasterPlaylist builds from the ladder, line by line; the
\* values of #EXT-X-STREAM-INF are BANDWIDTH and the two numbers of RESOLUTION.
playlistContent(configs) ==
    << Line("#EXTM3U", << >>), Line("#EXT-X-VERSION", <<3>>) >>
    \o Flatten([i \in 1..Len(configs) |->
           << Line("#EXT-X-STREAM-INF",
                   << bandwidth(configs[i]), configs[i].maxHeight, configs[i].maxHeight >>),
              Line("URI", << configs[i].name, "segments", "playlist.m3u8" >>) >>])

\* createMasterPlaylist writes master.m3u8.
MasterPlaylist ==
    /\ pc = "masterPlaylist"
    /\ playlist' = playlistContent(QUALITY_CONFIGS)
    /\ scratch' = scratch \cup {masterPlaylistPath}
    /\ pc' = NextStage("masterPlaylist")
    /\ UNCHANGED << queueVars, processingError, outcome, requestVars, dest, destAtStart,
                    k, segmented, targetSize, uploadVars, cleanupVars, statusVars >>

MasterPlaylistFail ==
    /\ pc = "masterPlaylist"
    /\ Catch("master")
    /\ UNCHANGED << queueVars, outcome, scratch, dest, destAtStart, stageVars, uploadVars,
                    cleanupVars, statusVars >>

\* Faulty variant of StaleManifestKey: the master playlist is deleted.
StaleManifestKeyPlaylist(j) == savePath(j) \o <<"master.m3u8">>

\* The key of the stale manifest that is deleted before the upload.
StaleManifestKey(j) == savePath(j) \o <<"master.mpd">>

\* s3.deleteObject succeeds.
DeleteStale ==
    /\ pc = "deleteStale"
    /\ dest' = DeleteObject(dest, StaleManifestKey(active))
    /\ pc' = NextStage("deleteStale")
    /\ UNCHANGED << queueVars, processingError, outcome, scratch, requestVars, destAtStart,
                    stageVars, uploadVars, cleanupVars, statusVars >>

\* Faulty variant of DeleteStaleCatch: the error reaches the catch block of the
\* pipeline.
DeleteStaleCatchRethrows == [pc |-> "postFailed", error |-> "deleteStale"]

\* The catch around s3.deleteObject logs 'No existing master.mpd file to
\* delete' and the try block goes on.
DeleteStaleCatch == [pc |-> NextStage("deleteStale"), error |-> processingError]

\* s3.deleteObject throws: caught and logged.
DeleteStaleFail ==
    /\ pc = "deleteStale"
    /\ pc' = DeleteStaleCatch.pc
    /\ processingError' = DeleteStaleCatch.error
    /\ UNCHANGED << queueVars, outcome, scratch, requestVars, dest,
                    destAtStart, stageVars, uploadVars, cleanupVars, statusVars >>

\* ----------------------------------------------------------------- upload
\* The entries fs.readdir(localPath, {recursive: true}) can return, relative to
\* the output directory, in listing order: the tree is walked level by level,
\* the entries of the output directory first, then those of each quality
\* directory, then those of each segments directory.
QualityEntries(q) == << <<q, "segments">>, <<q, Mp4Name(q)>> >>

SegmentEntries(q) ==
    << <<q, "segments", "playlist.m3u8">> >>
    \o [i \in 1..(MaxDuration + 1) |-> <<q, "segments", SegmentName(i - 1)>>]

AllEntries ==
    [i \in 1..NConfigs |-> << QUALITY_CONFIGS[i].name >>]
    \o << <<"master.m3u8">>, <<"thumbnail.jpg">> >>
    \o Flatten([i \in 1..NConfigs |-> QualityEntries(QUALITY_CONFIGS[i].name)])
    \o Flatten([i \in 1..NConfigs |-> SegmentEntries(QUALITY_CONFIGS[i].name)])

Exists(fs, rel) == (outputDir \o rel) \in fs

\* Faulty variant of Readdir: the entries of the output directory alone.
ReaddirTopLevel(fs) == SelectSeq(AllEntries, LAMBDA rel : Exists(fs, rel) /\ Len(rel) = 1)

\* fs.readdir(localPath, {recursive: true})
Readdir(fs) == SelectSeq(AllEntries, LAMBDA rel : Exists(fs, rel))

\* stats.isFile()
IsFile(rel) == (outputDir \o rel) \notin Directories

\* Faulty variant of s3Key: a re-execution publishes below a folder of its own.
s3KeyPerExecution(j, rel) ==
    IF executions[j] > 1 THEN savePath(j) \o <<"retry">> \o rel ELSE savePath(j) \o rel

\* path.join(s3Path, relativePath)
s3Key(j, rel) == savePath(j) \o rel

\* Credentials present, headBucket succeeds, the listing is read.
UploadCheck ==
    /\ pc = "uploadCheck"
    /\ files' = Readdir(scratch)
    /\ fileIdx' = 1
    /\ uploaded' = << >>
    /\ pc' = NextStage("uploadCheck")
    /\ UNCHANGED << queueVars, processingError, outcome, scratch, requestVars, dest,
                    destAtStart, stageVars, cleanupVars, statusVars >>

\* Credentials missing or headBucket throws.
UploadCheckFail ==
    /\ pc = "uploadCheck"
    /\ Catch("upload")
    /\ UNCHANGED << queueVars, outcome, scratch, dest, destAtStart, stageVars, uploadVars,
                    cleanupVars, statusVars >>

\* One turn of the loop over the listing: a directory is skipped, a file is
\* uploaded with upload.done().
UploadFile ==
    /\ pc = "uploadFile"
    /\ fileIdx <= Len(files)
    /\ dest' = IF IsFile(files[fileIdx])
               THEN PutObject(dest, s3Key(active, files[fileIdx]), "new")
               ELSE dest
    /\ uploaded' = IF IsFile(files[fileIdx])
                   THEN Append(uploaded, s3Key(active, files[fileIdx]))
                   ELSE uploaded
    /\ fileIdx' = fileIdx + 1
    /\ UNCHANGED << queueVars, pc, processingError, outcome, scratch, requestVars,
                    destAtStart, stageVars, files, cleanupVars, statusVars >>

\* Faulty variant of AbortUpload: what was sent of the file stays at its key.
AbortUploadLeavesParts(store, key) == PutObject(store, key, "partial")

\* An Upload that fails with leavePartsOnError: false aborts: the parts sent
\* are discarded and the object of the key, if any, is what it was.
AbortUpload(store, key) == store

\* upload.done() rejects: 'Failed to upload <file>'.
UploadFileFail ==
    /\ pc = "uploadFile"
    /\ fileIdx <= Len(files)
    /\ IsFile(files[fileIdx])
    /\ dest' = AbortUpload(dest, s3Key(active, files[fileIdx]))
    /\ Catch("upload")
    /\ UNCHANGED << queueVars, outcome, scratch, destAtStart, stageVars, uploadVars,
                    cleanupVars, statusVars >>

\* The loop is over: uploadToS3 returns.
UploadDone ==
    /\ pc = "uploadFile"
    /\ fileIdx > Len(files)
    /\ pc' = NextStage("uploadFile")
    /\ UNCHANGED << queueVars, processingError, outcome, scratch, requestVars, dest,
                    destAtStart, stageVars, uploadVars, cleanupVars, statusVars >>

\* The listing is logged and the result object returned: the return value is
\* pending while the finally block runs.
Verify ==
    /\ pc = "verify"
    /\ outcome' = "result"
    /\ pc' = NextStage("verify")
    /\ UNCHANGED << queueVars, processingError, scratch, requestVars, dest, destAtStart,
                    stageVars, uploadVars, cleanupVars, statusVars >>

\* ----------------------------------------------------- status notification
\* The request is handed to axios (first try only): recorded for the execution
\* with the error it reports and whether the cleanup had already started, and
\* for the job with the attempt it was sent in.
Record(status) ==
    IF retryCount = 0
    THEN /\ sent' = Append(sent, [status |-> status, error |-> processingError,
                                  cleaned |-> cleanupTried # {}])
         /\ notifs' = [notifs EXCEPT ![active] =
                          Append(@, [status |-> status, attempt |-> attemptsMade[active] + 1])]
    ELSE UNCHANGED << sent, notifs >>

\* Faulty variant of CatchRethrows: the error of the status request escapes.
CatchRethrowsStatusError(error, statusError) ==
    IF statusError # "null" THEN statusError ELSE error

\* catch: what is thrown after the 'failed' request, given the error caught
\* from that request ("null" when it succeeded).
CatchRethrows(error, statusError) == error

\* The 'failed' POST answers 2xx; then `throw error`.
PostFailed ==
    /\ pc = "postFailed"
    /\ Record("failed")
    /\ outcome' = CatchRethrows(processingError, "null")
    /\ pc' = "finally"
    /\ RequestSettled
    /\ UNCHANGED << queueVars, processingError, scratch, dest, destAtStart,
                    stageVars, uploadVars, cleanupVars, statusUpdateError >>

\* The 'failed' POST fails and the interceptor issues it again.
PostFailedRetry ==
    /\ pc = "postFailed"
    /\ Interceptor(retryCount).retry
    /\ Record("failed")
    /\ retryCount' = Interceptor(retryCount).retryCount
    /\ delay' = Interceptor(retryCount).delay
    /\ UNCHANGED << queueVars, pc, processingError, outcome, scratch, dest, destAtStart,
                    stageVars, uploadVars, cleanupVars, statusUpdateError >>

\* The 'failed' POST fails for good: logged; then `throw error`.
PostFailedAbandon ==
    /\ pc = "postFailed"
    /\ ~Interceptor(retryCount).retry
    /\ Record("failed")
    /\ statusUpdateError' = TRUE
    /\ outcome' = CatchRethrows(processingError, "statusUpdate")
    /\ pc' = "finally"
    /\ RequestSettled
    /\ UNCHANGED << queueVars, processingError, scratch, dest, destAtStart,
                    stageVars, uploadVars, cleanupVars >>

\* ---------------------------------------------------------------- cleanup
\* finally: existsSync of the input file and of the output directory.
Finally ==
    /\ pc = "finally"
    /\ inputFileExists' = (inputTmp \in scratch)
    /\ outputDirExists' = (outputDir \in scratch)
    /\ pc' = "unlinkInput"
    /\ UNCHANGED << queueVars, processingError, outcome, scratch, requestVars, dest,
                    destAtStart, stageVars, uploadVars, cleanupErrors, cleanupTried,
                    statusVars >>

\* fs.unlink(inputTmp) succeeds.
UnlinkInput ==
    /\ pc = "unlinkInput"
    /\ inputFileExists
    /\ scratch' = scratch \ {inputTmp}
    /\ cleanupTried' = cleanupTried \cup {"input"}
    /\ pc' = "removeOutput"
    /\ UNCHANGED << queueVars, processingError, outcome, requestVars, dest, destAtStart,
                    stageVars, uploadVars, inputFileExists, outputDirExists, cleanupErrors,
                    statusVars >>

\* fs.unlink throws: caught and logged.
UnlinkInputFail ==
    /\ pc = "unlinkInput"
    /\ inputFileExists
    /\ cleanupErrors' = cleanupErrors \cup {"input"}
    /\ cleanupTried' = cleanupTried \cup {"input"}
    /\ pc' = "removeOutput"
    /\ UNCHANGED << queueVars, processingError, outcome, scratch, requestVars, dest,
                    destAtStart, stageVars, uploadVars, inputFileExists, outputDirExists,
                    statusVars >>

\* 'Input file does not exist, skipping removal'
UnlinkInputSkip ==
    /\ pc = "unlinkInput"
    /\ ~inputFileExists
    /\ cleanupTried' = cleanupTried \cup {"input"}
    /\ pc' = "removeOutput"
    /\ UNCHANGED << queueVars, processingError, outcome, scratch, requestVars, dest,
                    destAtStart, stageVars, uploadVars, inputFileExists, outputDirExists,
                    cleanupErrors, statusVars >>

\* fs.remove(outputDir) succeeds.
RemoveOutput ==
    /\ pc = "removeOutput"
    /\ outputDirExists
    /\ scratch' = RemoveTree(scratch, outputDir)
    /\ cleanupTried' = cleanupTried \cup {"output"}
    /\ pc' = "removeTmpDir"
    /\ UNCHANGED << queueVars, processingError, outcome, requestVars, dest, destAtStart,
                    stageVars, uploadVars, inputFileExists, outputDirExists, cleanupErrors,
                    statusVars >>

\* fs.remove throws: caught and logged.
RemoveOutputFail ==
    /\ pc = "removeOutput"
    /\ outputDirExists
    /\ cleanupErrors' = cleanupErrors \cup {"output"}
    /\ cleanupTried' = cleanupTried \cup {"output"}
    /\ pc' = "removeTmpDir"
    /\ UNCHANGED << queueVars, processingError, outcome, scratch, requestVars, dest,
                    destAtStart, stageVars, uploadVars, inputFileExists, outputDirExists,
                    statusVars >>

\* 'Output directory does not exist, skipping removal'
RemoveOutputSkip ==
    /\ pc = "removeOutput"
    /\ ~outputDirExists
    /\ cleanupTried' = cleanupTried \cup {"output"}
    /\ pc' = "removeTmpDir"
    /\ UNCHANGED << queueVars, processingError, outcome, scratch, requestVars, dest,
                    destAtStart, stageVars, uploadVars, inputFileExists, outputDirExists,
                    cleanupErrors, statusVars >>

\* Faulty variant of ShouldPostDone: 'done' is posted whatever happened.
ShouldPostDoneAlways(error) == TRUE

\* if (!processingError): the 'done' request is made.
ShouldPostDone(error) == error = "null"

\* Faulty variant of FinallyCompletion: an error of a removal escapes the
\* finally block and replaces the pending completion.
FinallyCompletionCleanupThrows(pending, errors, statusFailed) ==
    IF errors # {} THEN "cleanup" ELSE pending

\* What the execution completes with once the finally block is over, given the
\* completion pending when it was entered, the cleanup steps that threw and
\* whether the status request was abandoned.
FinallyCompletion(pending, errors, statusFailed) == pending

ExitPc(completion) == IF completion = "result" THEN "returned" ELSE "threw"

\* After tmpDir.removeCallback(): either the 'done' request or the exit.
AfterCleanup(errors) ==
    IF ShouldPostDone(processingError)
    THEN /\ pc' = "postDone"
         /\ NewRequest
         /\ UNCHANGED outcome
    ELSE /\ outcome' = FinallyCompletion(outcome, errors, statusUpdateError)
         /\ pc' = ExitPc(outcome')
         /\ UNCHANGED requestVars

\* tmpDir.removeCallback() succeeds (unsafeCleanup: the whole tree goes).
RemoveTmpDir ==
    /\ pc = "removeTmpDir"
    /\ scratch' = RemoveTree(scratch, tmpDir)
    /\ cleanupTried' = cleanupTried \cup {"tmpDir"}
    /\ AfterCleanup(cleanupErrors)
    /\ UNCHANGED << queueVars, processingError, dest, destAtStart, stageVars, uploadVars,
                    inputFileExists, outputDirExists, cleanupErrors, statusVars >>

\* tmpDir.removeCallback() throws: caught and logged.
RemoveTmpDirFail ==
    /\ pc = "removeTmpDir"
    /\ cleanupErrors' = cleanupErrors \cup {"tmpDir"}
    /\ cleanupTried' = cleanupTried \cup {"tmpDir"}
    /\ AfterCleanup(cleanupErrors')
    /\ UNCHANGED << queueVars, processingError, scratch, dest, destAtStart, stageVars,
                    uploadVars, inputFileExists, outputDirExists, statusVars >>

\* The 'done' POST answers 2xx.
PostDone ==
    /\ pc = "postDone"
    /\ Record("done")
    /\ outcome' = FinallyCompletion(outcome, cleanupErrors, statusUpdateError)
    /\ pc' = ExitPc(outcome')
    /\ RequestSettled
    /\ UNCHANGED << queueVars, processingError, scratch, dest, destAtStart,
                    stageVars, uploadVars, cleanupVars, statusUpdateError >>

\* The 'done' POST fails and the interceptor issues it again.
PostDoneRetry ==
    /\ pc = "postDone"
    /\ Interceptor(retryCount).retry
    /\ Record("done")
    /\ retryCount' = Interceptor(retryCount).retryCount
    /\ delay' = Interceptor(retryCount).delay
    /\ UNCHANGED << queueVars, pc, processingError, outcome, scratch, dest, destAtStart,
                    stageVars, uploadVars, cleanupVars, statusUpdateError >>

\* The 'done' POST fails for good: caught and logged.
PostDoneAbandon ==
    /\ pc = "postDone"
    /\ ~Interceptor(retryCount).retry
    /\ Record("done")
    /\ statusUpdateError' = TRUE
    /\ outcome' = FinallyCompletion(outcome, cleanupErrors, TRUE)
    /\ pc' = ExitPc(outcome')
    /\ RequestSettled
    /\ UNCHANGED << queueVars, processingError, scratch, dest, destAtStart,
                    stageVars, uploadVars, cleanupVars >>

\* ------------------------------------------------------------------- spec
Next ==
    \/ \E j \in Jobs : CreateJob(j)
    \/ \E j \in Jobs : Dequeue(j)
    \/ \E j \in Jobs : Promote(j)
    \/ WorkerCompleted
    \/ WorkerFailed
    \/ StartBadUrl
    \/ StartTmpFail
    \/ Start
    \/ EnsureOutputDir
    \/ EnsureOutputDirFail
    \/ DownloadRequest
    \/ DownloadRetry
    \/ DownloadRequestFail
    \/ DownloadPipe
    \/ DownloadWriterError
    \/ DownloadStreamError
    \/ Probe
    \/ ProbeFail
    \/ Thumbnail
    \/ ThumbnailFail
    \/ QualityDirs
    \/ QualityDirsFail
    \/ Encode
    \/ EncodeFail
    \/ Segment
    \/ SegmentFail
    \/ MasterPlaylist
    \/ MasterPlaylistFail
    \/ DeleteStale
    \/ DeleteStaleFail
    \/ UploadCheck
    \/ UploadCheckFail
    \/ UploadFile
    \/ UploadFileFail
    \/ UploadDone
    \/ Verify
    \/ PostFailed
    \/ PostFailedRetry
    \/ PostFailedAbandon
    \/ Finally
    \/ UnlinkInput
    \/ UnlinkInputFail
    \/ UnlinkInputSkip
    \/ RemoveOutput
    \/ RemoveOutputFail
    \/ RemoveOutputSkip
    \/ RemoveTmpDir
    \/ RemoveTmpDirFail
    \/ PostDone
    \/ PostDoneRetry
    \/ PostDoneAbandon

Spec == Init /\ [][Next]_vars

\* The executions in which no stage and no request fails, with worker processes
\* that can be terminated at any point.
NextWithCrash ==
    \/ \E j \in Jobs : CreateJob(j)
    \/ \E j \in Jobs : Dequeue(j)
    \/ \E j \in Jobs : Crash(j)
    \/ WorkerCompleted
    \/ Start
    \/ EnsureOutputDir
    \/ DownloadRequest
    \/ DownloadPipe
    \/ Probe
    \/ Thumbnail
    \/ QualityDirs
    \/ Encode
    \/ Segment
    \/ MasterPlaylist
    \/ DeleteStale
    \/ DeleteStaleFail
    \/ UploadCheck
    \/ UploadFile
    \/ UploadDone
    \/ Verify
    \/ Finally
    \/ UnlinkInput
    \/ RemoveOutput
    \/ RemoveTmpDir
    \/ PostDone

RedeliverySpec == Init /\ [][NextWithCrash]_vars

\* The executions in which no stage and no request fails, over sources of every
\* width and height up to MaxSourceSide.
SourceSizes == [width : 1..MaxSourceSide, height : 1..MaxSourceSide]

LadderInit ==
    /\ InitCommon
    /\ InitList
    /\ \E size \in SourceSizes : videoInfo = [j \in Jobs |-> size]
    /\ InitContentType
    /\ InitBody

NextNoFault ==
    \/ \E j \in Jobs : CreateJob(j)
    \/ \E j \in Jobs : Dequeue(j)
    \/ WorkerCompleted
    \/ Start
    \/ EnsureOutputDir
    \/ DownloadRequest
    \/ DownloadPipe
    \/ Probe
    \/ Thumbnail
    \/ QualityDirs
    \/ Encode
    \/ Segment
    \/ MasterPlaylist
    \/ DeleteStale
    \/ UploadCheck
    \/ UploadFile
    \/ UploadDone
    \/ Verify
    \/ Finally
    \/ UnlinkInput
    \/ RemoveOutput
    \/ RemoveTmpDir
    \/ PostDone

LadderSpec == LadderInit /\ [][NextNoFault]_vars

\* ----------------------------------------------------------------- claims
Exited == pc \in {"returned", "threw"}

\* Errors thrown by processVideoToHLS before its try block is entered.
PreTryErrors == {"url", "tmp"}

\* The execution at hand went through the try block and has ended.
ExitedPipeline == Exited /\ outcome \notin PreTryErrors

CleanupSteps == {"input", "output", "tmpDir"}

\* Errors of the stages that precede the stale-manifest deletion and the upload.
PreUploadErrors == {"ensureDir", "download", "probe", "thumbnail", "encode", "segment", "master"}

\* What the caller must receive: the result after a successful pipeline, the
\* error of the failed stage otherwise.
OriginalCompletion ==
    IF processingError = "null" THEN pc = "returned" /\ outcome = "result"
                                ELSE pc = "threw" /\ outcome = processingError

\* C1: when an execution that entered the pipeline returns or throws (after a
\* success, after the failure of any stage, after an abandoned status request),
\* nothing of the scratch workspace exists any more: not the input file, not
\* the output tree, not the workspace root. The removal requests themselves are
\* taken to work: the case where removing the workspace root throws is C7's.
C1_WorkspaceRemovedAtExit ==
    (ExitedPipeline /\ "tmpDir" \notin cleanupErrors) => scratch = {}

C1_Witness ==
    /\ pc = "threw"
    /\ processingError = "segment"
    /\ statusUpdateError
    /\ inputFileExists /\ outputDirExists
    /\ cleanupErrors = {}
    /\ scratch = {}

\* C2: once a stage before the upload has failed, the bucket is exactly what
\* it was when the execution started: nothing written, nothing deleted.
C2_DestinationUntouchedOnEarlyFailure ==
    processingError \in PreUploadErrors => dest = destAtStart

C2_Witness ==
    /\ pc = "threw"
    /\ processingError = "segment"
    /\ k = 3
    /\ Obj(StaleManifestKey(active), "old") \in dest
    /\ dest = destAtStart

\* C3: a job is never executed a 4th time; it is in the failed state exactly
\* when 3 attempts have failed, having been executed exactly 3 times; and a
\* failed job stays failed, its record in the queue, and is not executed again.
C3_ThreeAttemptsThenFailed ==
    /\ [](\A j \in Jobs :
            /\ executions[j] <= 3
            /\ (jobState[j] = "failed") <=> (attemptsMade[j] = 3)
            /\ (jobState[j] = "failed") => (executions[j] = 3))
    /\ [][\A j \in Jobs :
            jobState[j] = "failed" =>
                (jobState'[j] = "failed" /\ executions'[j] = executions[j])]_vars

C3_Witness ==
    \E j \in Jobs : jobState[j] = "failed" /\ executions[j] = 3 /\ Len(notifs[j]) = 3

\* C4: an abandoned status request does not change what the execution ends
\* with: a successful pipeline returns its result and the job is completed, a
\* failed pipeline rejects with the error of its failed stage.
C4_StatusFailureKeepsOutcome ==
    /\ []((ExitedPipeline /\ statusUpdateError) => OriginalCompletion)
    /\ [][(pc = "returned" /\ statusUpdateError) => jobState'[active] = "removed"]_vars

C4_Witness ==
    /\ pc = "threw"
    /\ statusUpdateError
    /\ processingError = "probe"
    /\ outcome = "probe"

\* C5: a 'failed' notification is sent only in the last (3rd) attempt of the
\* job, and no 'done' notification follows a 'failed' one for the same job.
C5_FailedOnlyWhenTerminal ==
    \A j \in Jobs : \A i \in DOMAIN notifs[j] :
        notifs[j][i].status = "failed" =>
            /\ notifs[j][i].attempt = 3
            /\ \A n \in DOMAIN notifs[j] : n > i => notifs[j][n].status # "done"

\* The upload loop of this execution ran over the whole listing.
UploadCompleted == Len(files) > 0 /\ fileIdx > Len(files)

C7_CleanupFailureSwallowed ==
    /\ ExitedPipeline =>
          /\ cleanupTried = CleanupSteps
          /\ OriginalCompletion
    /\ ~inputFileExists => ("input" \notin cleanupErrors /\ (Exited => inputTmp \notin scratch))
    /\ ~outputDirExists => "output" \notin cleanupErrors

C7_Witness ==
    /\ pc = "threw"
    /\ processingError = "upload"
    /\ outcome = "upload"
    /\ cleanupErrors = CleanupSteps

\* C8: every status notification is sent before the cleanup starts; none is
\* sent once the scratch workspace has been removed.
C8_CleanupIsLast ==
    \A i \in DOMAIN sent : ~sent[i].cleaned

\* A continuation of the running execution: any step but the submission of a
\* job and the expiry of a backoff.
ExecutionStep ==
    \/ WorkerCompleted \/ WorkerFailed \/ StartBadUrl \/ StartTmpFail \/ Start
    \/ EnsureOutputDir \/ EnsureOutputDirFail \/ DownloadRequest \/ DownloadRetry
    \/ DownloadRequestFail \/ DownloadPipe \/ DownloadWriterError \/ DownloadStreamError
    \/ Probe \/ ProbeFail \/ Thumbnail \/ ThumbnailFail \/ QualityDirs \/ QualityDirsFail
    \/ Encode \/ EncodeFail \/ Segment \/ SegmentFail \/ MasterPlaylist
    \/ MasterPlaylistFail \/ DeleteStale \/ DeleteStaleFail \/ UploadCheck
    \/ UploadCheckFail \/ UploadFile \/ UploadFileFail \/ UploadDone \/ Verify
    \/ PostFailed \/ PostFailedRetry \/ PostFailedAbandon \/ Finally \/ UnlinkInput
    \/ UnlinkInputFail \/ UnlinkInputSkip \/ RemoveOutput \/ RemoveOutputFail
    \/ RemoveOutputSkip \/ RemoveTmpDir \/ RemoveTmpDirFail \/ PostDone \/ PostDoneRetry
    \/ PostDoneAbandon

\* C9: an execution that has started returns or throws in the end, every
\* external operation signalling its completion or its error; so, with a
\* signal delivered (here the 'error' of the response stream), the execution is
\* never left with a job in progress and no step to take.
C9_ExecutionNeverStuck ==
    active # NoJob => ENABLED ExecutionStep

\* The names of the first n qualities of the ladder.
LadderBefore(i) == { QUALITY_CONFIGS[n].name : n \in 1..(i - 1) }

\* C10 as stated: once the encoding of a quality has failed, no quality of the
\* job has been segmented and nothing of the job is published.
C10_NothingSegmentedOnEncodeFailure ==
    processingError = "encode" => (segmented = {} /\ dest = destAtStart)

\* C10 as amended: once the encoding of the quality at ladder index k has
\* failed, exactly the qualities before k have been segmented (each right after
\* its own encoding), the failed quality and those after it never are, and
\* nothing of the job is published.
C10_OnlyEarlierQualitiesSegmented ==
    processingError = "encode" => (segmented = LadderBefore(k) /\ dest = destAtStart)

C10_Witness ==
    /\ pc = "threw"
    /\ processingError = "encode"
    /\ k = 3
    /\ segmented = {"360p", "480p"}

\* The positions of the try block, in the order the stages are to occur.
PipelineOrder ==
    << "ensureOutputDir", "downloadRequest", "downloadPipe", "probe", "thumbnail",
       "qualityDirs", "encode", "segment", "masterPlaylist", "deleteStale", "uploadCheck",
       "uploadFile", "verify" >>

Position(p) == CHOOSE i \in DOMAIN PipelineOrder : PipelineOrder[i] = p

InPipeline(p) == \E i \in DOMAIN PipelineOrder : PipelineOrder[i] = p

LadderNames == { "360p", "480p", "720p", "1080p" }

\* C11: within one execution the stages are gone through in the order download,
\* probe, thumbnail, then per quality in ladder order its encoding followed by
\* its segmentation, then master playlist, stale-manifest deletion, upload; a
\* stage is entered only from the stage before it, whose product then exists,
\* and while a stage is in progress nothing of a later stage exists: the
\* qualities segmented are exactly those before the one being processed, the
\* master playlist is written only once the whole ladder is segmented, and the
\* bucket is touched only from the stale-manifest deletion on.
C11_StagesInFixedOrder ==
    /\ [][(InPipeline(pc) /\ InPipeline(pc') /\ pc' # pc) =>
            \/ /\ Position(pc') = Position(pc) + 1
               /\ pc = "encode" => k' = k
               /\ pc = "segment" => k = 4
            \/ /\ pc = "segment" /\ pc' = "encode"
               /\ k < 4 /\ k' = k + 1]_vars
    /\ [](/\ pc \in {"probe", "thumbnail"} => inputTmp \in scratch
          /\ pc \in {"qualityDirs", "encode", "segment"} => thumbnailPath \in scratch
          /\ pc \in {"encode", "segment"} =>
                /\ segmented = LadderBefore(k)
                /\ \A q \in LadderNames \ segmented : variantPlaylist(q) \notin scratch
                /\ masterPlaylistPath \notin scratch
          /\ pc = "encode" => outputPath(QUALITY_CONFIGS[k].name) \notin scratch
          /\ pc = "segment" => outputPath(QUALITY_CONFIGS[k].name) \in scratch
          /\ pc = "masterPlaylist" =>
                (segmented = LadderNames /\ masterPlaylistPath \notin scratch)
          /\ pc \in {"deleteStale", "uploadCheck", "uploadFile", "verify"} =>
                (segmented = LadderNames /\ masterPlaylistPath \in scratch)
          /\ (InPipeline(pc) /\ Position(pc) <= Position("deleteStale")) =>
                dest = destAtStart
          /\ (InPipeline(pc) /\ Position(pc) <= Position("uploadCheck")) =>
                uploaded = << >>)

C11_Witness ==
    /\ pc = "verify"
    /\ segmented = LadderNames
    /\ Obj(savePath(active) \o <<"master.m3u8">>, "new") \in dest
    /\ Obj(savePath(active) \o <<"1080p", "segments", "segment_000.ts">>, "new") \in dest

\* A stage of the execution at hand has failed: its error was caught, or the
\* response stream of the download broke.
StageFailed == processingError # "null" \/ pc = "hung"

\* C12: once a stage has failed no later stage runs; the execution goes on
\* through the cleanup until processVideoToHLS rejects with the error of that
\* stage, which the processor re-throws; so it is never at rest before it
\* threw, and it never returns.
C12_FailedStageEndsInFailedAttempt ==
    StageFailed =>
        /\ ~InPipeline(pc)
        /\ pc # "returned"
        /\ pc = "threw" => (outcome = processingError /\ cleanupTried = CleanupSteps)
        /\ ENABLED ExecutionStep

\* The objects of the bucket below the destination prefix of job j.
AtPrefix(j) == { o \in dest : IsPrefix(savePath(j), o.key) }

\* The keys a run over a source of d seconds publishes for job j: the master
\* playlist, the thumbnail and, per quality, the variant playlist and the
\* segments (with the encoded file they were cut from).
PublishedKeys(j, d) ==
    { savePath(j) \o <<"master.m3u8">>, savePath(j) \o <<"thumbnail.jpg">> }
    \cup { savePath(j) \o <<q, "segments", "playlist.m3u8">> : q \in LadderNames }
    \cup { savePath(j) \o <<q, "segments", SegmentName(i)>> : q \in LadderNames, i \in 0..(d - 1) }
    \cup { savePath(j) \o <<q, Mp4Name(q)>> : q \in LadderNames }

\* C13: once a job is completed, its destination prefix holds exactly what the
\* completing run produced (one master playlist, one thumbnail, per quality one
\* variant playlist and that run's segments) and no object left over from an
\* earlier run, whatever the prefix held before.
C13_CompletedPrefixHoldsOnlyThisRun ==
    \A j \in Jobs :
        jobState[j] = "removed" =>
            /\ { o.key : o \in AtPrefix(j) } = PublishedKeys(j, duration[j])
            /\ \A o \in AtPrefix(j) : o.body = "new"

\* The key the run publishes its master playlist at.
MasterPlaylistKey(j) == savePath(j) \o <<"master.m3u8">>

\* C14: when the upload of a run starts, the master playlist an earlier run
\* left at the destination prefix has been deleted: from then on, until the new
\* master playlist arrives, no old master playlist is readable there.
C14_OldMasterPlaylistGoneBeforeUpload ==
    pc \in {"uploadCheck", "uploadFile", "verify"} =>
        Obj(MasterPlaylistKey(active), "old") \notin dest

\* The bucket after one uninterrupted, successful execution of job j over a
\* source of d seconds started on `store`, the stale manifest being deleted
\* (gone = TRUE) or its deletion having failed.
SingleRun(store, j, d, gone) ==
    { o \in store : /\ o.key \notin PublishedKeys(j, d)
                    /\ ~(gone /\ o.key = savePath(j) \o <<"master.mpd">>) }
    \cup { Obj(key, "new") : key \in PublishedKeys(j, d) }

\* C15: whatever the point at which executions of a job were interrupted by the
\* termination of the worker (the middle of the upload included), once a
\* re-execution has completed the job the bucket is what one uninterrupted
\* execution leaves from the same initial bucket; and the first interruption
\* puts the job back to waiting without using up an attempt, so that it is
\* executed again.
C15_RedeliveryIsIdempotent ==
    /\ [](\A j \in Jobs :
            jobState[j] = "removed" =>
                \E gone \in BOOLEAN : dest = SingleRun(dest0, j, duration[j], gone))
    /\ [][\A j \in Jobs :
            (stalledCounter[j] = 0 /\ stalledCounter'[j] = 1) =>
                /\ jobState'[j] = "waiting"
                /\ attemptsMade'[j] = attemptsMade[j]
                /\ scratch' = {}]_vars

C15_Witness ==
    \E j \in Jobs :
        /\ jobState[j] = "removed"
        /\ stalledCounter[j] = 1
        /\ executions[j] = 2
        /\ attemptsMade[j] = 0
        /\ dest0 # {}

\* The regular files of the scratch output tree, relative to the output
\* directory.
OutputFiles ==
    { SubSeq(path, Len(outputDir) + 1, Len(path)) :
        path \in { q \in scratch : IsPrefix(outputDir, q) /\ q \notin Directories } }

Range(seq) == { seq[i] : i \in DOMAIN seq }

\* C16: when uploadToS3 has returned, every regular file of the output tree was
\* uploaded exactly once, at the key made of the destination prefix and of its
\* path relative to the output directory; no directory was uploaded, and the
\* execution wrote no other key of the bucket.
C16_EveryFileUploadedOnceAtItsKey ==
    pc = "verify" =>
        /\ Range(uploaded) = { <<active>> \o rel : rel \in OutputFiles }
        /\ Cardinality(Range(uploaded)) = Len(uploaded)
        /\ \A key \in Range(uploaded) : Obj(key, "new") \in dest
        /\ { o.key : o \in dest \ destAtStart } \subseteq Range(uploaded)

C16_Witness ==
    /\ pc = "verify"
    /\ Len(uploaded) >= 14
    /\ Len(files) = Len(uploaded) + 8
    /\ <<active, "720p", "segments", "segment_000.ts">> \in Range(uploaded)

\* The upload of the file at position fileIdx of the listing has failed.
UploadFailedInLoop == processingError = "upload" /\ Len(files) > 0

\* C17: once the upload of the file at position i of the listing has failed,
\* the uploads done are exactly those of the files before position i: no file
\* from position i on is uploaded, the files uploaded before are at the
\* destination and stay there (nothing is deleted or written afterwards), and
\* the execution throws the upload error, so the attempt fails.
C17_UploadFailureKeepsEarlierFiles ==
    /\ [](UploadFailedInLoop =>
            /\ fileIdx \in 1..Len(files)
            /\ (outputDir \o files[fileIdx]) \notin Directories
            /\ Range(uploaded) =
                  { <<active>> \o files[i] :
                      i \in { n \in 1..(fileIdx - 1) : (outputDir \o files[n]) \notin Directories } }
            /\ \A key \in Range(uploaded) : Obj(key, "new") \in dest
            /\ \A o \in dest : o \in destAtStart \/ o.key \in Range(uploaded)
            /\ Exited => (pc = "threw" /\ outcome = "upload"))
    /\ [][UploadFailedInLoop => dest' = dest]_vars

C17_Witness ==
    /\ pc = "threw"
    /\ UploadFailedInLoop
    /\ Len(uploaded) = 3
    /\ Obj(<<active, "thumbnail.jpg">>, "new") \in dest
    /\ Obj(<<active, "360p", "segments", "playlist.m3u8">>, "new") \notin dest

\* The ms waited before the n-th retry of a request; none before its first try.
BackoffBefore(n) == IF n = 0 THEN 0 ELSE << 2000, 4000, 8000 >>[n]

\* C18: the request for the source is issued once when the download starts and
\* re-issued only on failure, at most 3 times, the k-th retry after a wait of
\* 2^k x 1000 ms; the pipeline fails on a request failure only when the 3rd
\* retry has failed, with the download error; and a request that succeeded is
\* not issued again in the execution.
C18_DownloadRetriedThreeTimesWithBackoff ==
    /\ [](pc = "downloadRequest" =>
            (retryCount \in 0..3 /\ delay = BackoffBefore(retryCount)))
    /\ [][(pc = "downloadRequest" /\ pc' = "downloadRequest") =>
            retryCount' = retryCount + 1]_vars
    /\ [][(pc = "downloadRequest" /\ pc' = "postFailed") =>
            (retryCount = 3 /\ processingError' = "download")]_vars
    /\ [][(pc # "downloadRequest" /\ pc' = "downloadRequest") =>
            (pc = "ensureOutputDir" /\ retryCount' = 0)]_vars

C18_Witness ==
    /\ pc = "downloadRequest"
    /\ retryCount = 3
    /\ delay = 8000

StatusRequest == {"postFailed", "postDone"}

\* C19: a status request starts with a retry count of its own at zero, whatever
\* the download of the execution used; it is re-issued only on failure, at most
\* 3 times, the k-th retry after a wait of 2^k x 1000 ms; and it is abandoned
\* only when the 3rd retry has failed.
C19_StatusRequestHasOwnBoundedRetry ==
    /\ [](pc \in StatusRequest =>
            (retryCount \in 0..3 /\ delay = BackoffBefore(retryCount)))
    /\ [][(pc' \in StatusRequest /\ pc' # pc) => (retryCount' = 0 /\ delay' = 0)]_vars
    /\ [][(pc \in StatusRequest /\ pc' = pc) => retryCount' = retryCount + 1]_vars
    /\ [][(~statusUpdateError /\ statusUpdateError') =>
            (pc \in StatusRequest /\ retryCount = 3)]_vars

C19_Witness ==
    /\ pc = "postFailed"
    /\ processingError = "download"
    /\ retryCount = 3
    /\ delay = 8000

\* The positions of the #EXT-X-STREAM-INF lines of a playlist.
StreamInfLines(text) == { i \in DOMAIN text : text[i].tag = "#EXT-X-STREAM-INF" }

\* C20: the master playlist written for the ladder of N profiles has exactly N
\* #EXT-X-STREAM-INF lines; the n-th of them is immediately followed by the
\* relative path <name>/segments/playlist.m3u8 of the n-th profile of the
\* ladder; and whatever the execution (source, attempt, bucket), the text
\* written is the one determined by the ladder.
C20_MasterPlaylistListsLadderInOrder ==
    playlist # << >> =>
        /\ Cardinality(StreamInfLines(playlist)) = NConfigs
        /\ Len(playlist) = 2 + 2 * NConfigs
        /\ \A n \in 1..NConfigs :
              /\ (2 * n + 1) \in StreamInfLines(playlist)
              /\ playlist[2 * n + 2] =
                    Line("URI", << QUALITY_CONFIGS[n].name, "segments", "playlist.m3u8" >>)
        /\ [n \in 1..NConfigs |-> playlist[2 * n + 2].value[1]]
              = << "360p", "480p", "720p", "1080p" >>
        /\ playlist = playlistContent(QUALITY_CONFIGS)

C20_Witness ==
    /\ pc = "deleteStale"
    /\ executions[active] = 2
    /\ duration[active] = 1
    /\ Len(playlist) = 10
    /\ playlist[4] = Line("URI", << "360p", "segments", "playlist.m3u8" >>)

\* The width and height announced by the n-th #EXT-X-STREAM-INF line.
Resolution(text, n) == << text[2 * n + 1].value[2], text[2 * n + 1].value[3] >>

\* C21: in the master playlist, the RESOLUTION of every entry is the width and
\* height the profile of that entry was encoded at.
C21_ResolutionIsEncodedSize ==
    playlist # << >> =>
        \A n \in 1..NConfigs : Resolution(playlist, n) = targetSize[n]

\* C22: in the master playlist, the BANDWIDTH of every entry is the video
\* bitrate plus the audio bitrate of its profile in bits per second: 564000 for
\* 500k + 64k, 896000 for 800k + 96k, 2628000 for 2500k + 128k and 5192000 for
\* 5000k + 192k.
C22_BandwidthIsBitrateSumInBitsPerSecond ==
    playlist # << >> =>
        [n \in 1..NConfigs |-> playlist[2 * n + 1].value[1]]
            = << 564000, 896000, 2628000, 5192000 >>

C22_Witness ==
    /\ pc = "uploadFile"
    /\ playlist # << >>
    /\ QUALITY_CONFIGS[1].videoBitrate = << "5", "0", "0", "k" >>
    /\ QUALITY_CONFIGS[1].audioBitrate = << "6", "4", "k" >>
    /\ playlist[3].value[1] = 564000

Abs(x) == IF x < 0 THEN -x ELSE x

\* C23 as stated: for every profile and every source size, the target width is
\* even and within 1 pixel of maxHeight * (sourceWidth / sourceHeight).
C23_TargetWidthEvenAndWithinOnePixel ==
    active # NoJob =>
        \A n \in 1..Len(targetSize) :
            LET info == videoInfo[active]
                maxHeight == QUALITY_CONFIGS[n].maxHeight
            IN  /\ targetSize[n][1] % 2 = 0
                /\ Abs(targetSize[n][1] * info.height - maxHeight * info.width)
                      <= info.height

\* C23 amended: for every profile and every source size, the target width is
\* even and within one pixel and a half of maxHeight * (sourceWidth /
\* sourceHeight), and the target height is maxHeight.
C23_TargetWidthEvenAndWithinOneAndAHalfPixels ==
    active # NoJob =>
        \A n \in 1..Len(targetSize) :
            LET info == videoInfo[active]
                maxHeight == QUALITY_CONFIGS[n].maxHeight
            IN  /\ targetSize[n][1] % 2 = 0
                /\ 2 * Abs(targetSize[n][1] * info.height - maxHeight * info.width)
                      <= 3 * info.height
                /\ targetSize[n][2] = maxHeight

C23_Witness ==
    /\ active # NoJob
    /\ Len(targetSize) = NConfigs
    /\ videoInfo[active] = [width |-> 1, height |-> 16]
    /\ targetSize[1] = << 24, 360 >>

\* ---- getContentType ----

\* The characters of the upper-case letters and their lower-case forms.
LowerOf ==
    [c \in {"G", "J", "M", "P", "S", "T", "U"} |->
        CASE c = "G" -> "g" [] c = "J" -> "j" [] c = "M" -> "m" [] c = "P" -> "p"
          [] c = "S" -> "s" [] c = "T" -> "t" [] c = "U" -> "u"]

\* Faulty variant of toLowerCase: the string as it is.
toLowerCaseSkipped(str) == str

\* String.prototype.toLowerCase
toLowerCase(str) ==
    [i \in 1..Len(str) |-> IF str[i] \in DOMAIN LowerOf THEN LowerOf[str[i]] ELSE str[i]]

\* The largest index of the string whose character is c (is = TRUE) or is not
\* c (is = FALSE), 0 if there is none.
LastIndex(str, c, is) ==
    LET hits == { i \in 1..Len(str) : (str[i] = c) = is }
    IN  IF hits = {} THEN 0 ELSE CHOOSE i \in hits : \A h \in hits : h <= i

\* path.basename without its trailing slashes: what path.extname scans.
LastPart(p) ==
    LET end == LastIndex(p, "/", FALSE)
        startPart == LastIndex(SubSeq(p, 1, end), "/", TRUE) + 1
    IN  SubSeq(p, startPart, end)

\* path.extname: from the last dot of the last part of the path to its end;
\* empty when the part has no dot, when its last dot is its first character
\* and when the part is "..".
extname(p) ==
    LET part == LastPart(p)
        startDot == LastIndex(part, ".", TRUE)
    IN  IF startDot = 0 \/ startDot = 1 \/ part = << ".", "." >>
        THEN << >>
        ELSE SubSeq(part, startDot, Len(part))

getContentType(name) ==
    LET ext == toLowerCase(extname(name))
    IN  CASE ext = << ".", "m", "3", "u", "8" >> -> "application/vnd.apple.mpegurl"
          [] ext = << ".", "t", "s" >> -> "video/mp2t"
          [] ext = << ".", "m", "p", "4" >> -> "video/mp4"
          [] ext = << ".", "j", "p", "g" >> -> "image/jpeg"
          [] OTHER -> "application/octet-stream"

\* The file names getContentType is applied to: a directory part, a stem and
\* an ending, in every combination that names a file.
DirParts ==
    { << >>,
      << "d", "/" >>,
      << "d", ".", "j", "p", "g", "/" >>,
      << ".", "/" >> }

Stems ==
    { << >>,
      << "a" >>,
      << "a", ".", "t", "s" >>,
      << "a", ".", "b", "." >>,
      << "." >>,
      << "s", "e", "g", "m", "e", "n", "t", "_", "0", "0", "0" >> }

Endings ==
    { << ".", "m", "3", "u", "8" >>,
      << ".", "M", "3", "U", "8" >>,
      << ".", "m", "3", "U", "8" >>,
      << ".", "t", "s" >>,
      << ".", "T", "S" >>,
      << ".", "T", "s" >>,
      << ".", "m", "p", "4" >>,
      << ".", "M", "P", "4" >>,
      << ".", "M", "p", "4" >>,
      << ".", "j", "p", "g" >>,
      << ".", "J", "P", "G" >>,
      << ".", "j", "P", "g" >>,
      << ".", "t", "x", "t" >>,
      << ".", "j", "p", "e", "g" >>,
      << ".", "m", "p", "d" >>,
      << ".", "m", "3", "u" >>,
      << "." >>,
      << >>,
      << "t", "s" >>,
      << "m", "p", "4" >> }

FileNames ==
    { n \in { d \o s \o e : d \in DirParts, s \in Stems, e \in Endings } :
        n # << >> /\ n[Len(n)] # "/" }

ContentTypeInit ==
    /\ InitCommon
    /\ InitList
    /\ InitSource
    /\ filename \in FileNames
    /\ contentType = NoType
    /\ InitBody

\* A call getContentType(filename).
GetContentType ==
    /\ contentType = NoType
    /\ contentType' = getContentType(filename)
    /\ UNCHANGED << jobState, attemptsMade, videoUrlOk, duration, active, executions,
                    stalledCounter, dest0, videoInfo, filename, body, fsVars, sideVars,
                    apiVars, pc,
                    processingError,
                    outcome, scratch, requestVars, dest, destAtStart, stageVars,
                    uploadVars, cleanupVars, statusVars >>

ContentTypeSpec == ContentTypeInit /\ [][GetContentType]_vars

\* The name with its upper-case letters lowered ends with the extension, which
\* follows at least one character of the file's own name.
HasExtension(name, ext) ==
    LET n == Len(name)
        e == Len(ext)
        lower == [i \in 1..n |-> IF name[i] \in DOMAIN LowerOf THEN LowerOf[name[i]] ELSE name[i]]
    IN  /\ n > e
        /\ SubSeq(lower, n - e + 1, n) = ext
        /\ name[n - e] # "/"

\* C24: getContentType answers application/vnd.apple.mpegurl for a file name
\* with extension .m3u8, video/mp2t for .ts, video/mp4 for .mp4 and image/jpeg
\* for .jpg, whatever the case of the letters of the extension, and
\* application/octet-stream for every other name.
C24_ContentTypeByExtensionIgnoringCase ==
    contentType # NoType =>
        contentType =
            IF HasExtension(filename, << ".", "m", "3", "u", "8" >>)
                THEN "application/vnd.apple.mpegurl"
            ELSE IF HasExtension(filename, << ".", "t", "s" >>) THEN "video/mp2t"
            ELSE IF HasExtension(filename, << ".", "m", "p", "4" >>) THEN "video/mp4"
            ELSE IF HasExtension(filename, << ".", "j", "p", "g" >>) THEN "image/jpeg"
            ELSE "application/octet-stream"

C24_Witness ==
    /\ filename = << "d", "/", "a", ".", "M", "3", "U", "8" >>
    /\ contentType = "application/vnd.apple.mpegurl"

\* ---- GET /job-status/:jobId ----

\* videoQueue.getJob: the record of the job, null when the queue holds none.
getJob(j) == IF jobState[j] \in {"none", "removed"} THEN "null" ELSE j

\* The status code of the answer to GET /job-status/:jobId.
JobStatusCode(j) == IF getJob(j) = "null" THEN 404 ELSE 200

\* C27: when the processor of a job returns, on whichever attempt, the job
\* leaves the queue: from then on a status query finds no job, and the job is
\* never taken by the worker again.
C27_SucceededJobIsRemovedAndNotRunAgain ==
    [][\A j \in Jobs :
          /\ (active = j /\ pc = "returned" /\ pc' # "returned")
                => (getJob(j)' = "null" /\ JobStatusCode(j)' = 404 /\ active' # j)
          /\ (jobState[j] # "none" /\ getJob(j) = "null")
                => /\ getJob(j)' = "null"
                   /\ executions'[j] = executions[j]
                   /\ active' # j]_vars

C27_Witness ==
    \E j \in Jobs :
        /\ attemptsMade[j] = 2
        /\ executions[j] = 3
        /\ jobState[j] # "none"
        /\ JobStatusCode(j) = 404
        /\ pc = "idle"

\* ---- POST /create-job/reels-processing ----

\* The bodies a client posts: each field absent, null, empty or given.
Bodies ==
    [reelId : {Undefined, Null, "", "42"},
     videoUrl : {Undefined, Null, "", "videoUrl"},
     folderPath : {Undefined, Null, "", "folderPath"}]

ApiInit ==
    /\ InitCommon
    /\ InitList
    /\ InitSource
    /\ InitContentType
    /\ body \in Bodies

ApiNext ==
    \/ \E j \in Jobs : CreateJob(j)
    \/ CreateJobRejected
    \/ CreateJobQueueError

ApiSpec == ApiInit /\ [][ApiNext]_vars

\* The jobs the queue holds.
Enqueued == { j \in Jobs : jobState[j] # "none" }

\* The field is in the body and is not the empty string.
Given(v) == v # Undefined /\ v # Null /\ v # ""

\* C28: once POST /create-job/reels-processing is answered: if reelId, videoUrl
\* and folderPath were all given and non-empty, the answer is a success with
\* exactly one job in the queue, added with 3 attempts and an exponential
\* backoff of base 1000 ms (or a 500 with nothing added, when the queue
\* refused the job); if one of them was missing or empty, the answer is 400 and
\* the queue holds nothing.
C28_CreateJobEnqueuesOnceOrAnswers400 ==
    response # NoResponse =>
        IF Given(body.reelId) /\ Given(body.videoUrl) /\ Given(body.folderPath)
        THEN \/ /\ response = 200
                /\ Enqueued = {body.reelId}
                /\ jobOpts[body.reelId] =
                       [attempts |-> 3, backoff |-> [type |-> "exponential", delay |-> 1000]]
                /\ jobData[body.reelId].reelId = body.reelId
                /\ jobData[body.reelId].videoUrl = body.videoUrl
                /\ jobData[body.reelId].folderPath = body.folderPath
             \/ /\ response = 500
                /\ Enqueued = {}
        ELSE /\ response = 400
             /\ Enqueued = {}

C28_Witness ==
    /\ response = 400
    /\ body.reelId = "42"
    /\ body.videoUrl = "videoUrl"
    /\ body.folderPath = ""

C28_WitnessEnqueued ==
    /\ response = 200
    /\ Enqueued = {"42"}

\* ---- job.data as other producers write it ----

\* The objects of one format: complete, or with one field absent or empty.
Complete == [reelId |-> "42", videoUrl |-> "videoUrl", folderPath |-> "folderPath"]

Payloads ==
    {Complete}
    \cup { [Complete EXCEPT ![f] = v] :
             f \in {"reelId", "videoUrl", "folderPath"}, v \in {Undefined, ""} }

\* job.data of the jobs in the queue: with or without a data object, with or
\* without a command object, and with the fields of job.data itself.
JobDatas ==
    { [data |-> d, command |-> c,
       reelId |-> f.reelId, videoUrl |-> f.videoUrl, folderPath |-> f.folderPath] :
        d \in {<< >>} \cup { << x >> : x \in Payloads },
        c \in {<< >>} \cup { << x >> : x \in Payloads },
        f \in Payloads }

\* Another producer (the Laravel application) adds a job to the queue, which
\* applies its default job options.
ProducerAdd(j) ==
    /\ jobState[j] = "none"
    /\ jobState' = [jobState EXCEPT ![j] = "waiting"]
    /\ \E d \in JobDatas : jobData' = [jobData EXCEPT ![j] = d]
    /\ jobOpts' = [jobOpts EXCEPT ![j] = AddOptions]
    /\ videoUrlOk' = [videoUrlOk EXCEPT ![j] = TRUE]
    /\ \E d \in 1..MaxDuration : duration' = [duration EXCEPT ![j] = d]
    /\ UNCHANGED << attemptsMade, active, executions, stalledCounter, dest0, inputVars,
                    response, pc, processingError, outcome, scratch, requestVars, dest,
                    destAtStart, stageVars, uploadVars, cleanupVars, statusVars >>

WorkerDataNext ==
    \/ \E j \in {"42"} : ProducerAdd(j)
    \/ \E j \in Jobs : DequeueMissingFields(j)
    \/ \E j \in Jobs : Promote(j)
    \/ WorkerFailed
    \/ NextNoFault

WorkerDataSpec == Init /\ [][WorkerDataNext]_vars

\* The format of job.data the processor must read: data, else command, else
\* job.data itself.
FormatRead(d) ==
    IF Len(d.data) = 1 THEN d.data[1]
    ELSE IF Len(d.command) = 1 THEN d.command[1]
    ELSE [reelId |-> d.reelId, videoUrl |-> d.videoUrl, folderPath |-> d.folderPath]

\* The three fields of the format are there and none is the empty string.
AllGiven(f) == Given(f.reelId) /\ Given(f.videoUrl) /\ Given(f.folderPath)

\* C29: while the processor runs a job, it works with the fields of one format
\* only (data before command before job.data itself): if that format has the
\* three fields the pipeline is invoked and the attempt does not fail; if not,
\* the attempt fails with 'Missing required fields in job data' and nothing of
\* the pipeline has happened, whatever the other formats hold.
C29_FieldsOfOneFormatOrMissingFields ==
    \A j \in Jobs :
        (active = j /\ pc # "idle") =>
            IF AllGiven(FormatRead(jobData[j]))
            THEN pc # "threw"
            ELSE /\ pc = "threw"
                 /\ outcome = "Missing required fields in job data"
                 /\ scratch = {}
                 /\ sent = << >>
                 /\ dest = destAtStart

C29_Witness ==
    \E j \in Jobs :
        /\ active = j
        /\ pc = "threw"
        /\ jobData[j].data = << [Complete EXCEPT !.folderPath = ""] >>
        /\ jobData[j].command = << Complete >>
        /\ AllGiven([reelId |-> jobData[j].reelId, videoUrl |-> jobData[j].videoUrl,
                     folderPath |-> jobData[j].folderPath])
        /\ attemptsMade[j] = 2

C29_WitnessCommand ==
    \E j \in Jobs :
        /\ active = j
        /\ pc = "verify"
        /\ jobData[j].data = << >>
        /\ jobData[j].command = << Complete >>
        /\ jobData[j].reelId = Undefined

\* C30: an attempt that ends in failure has attempted a 'failed' notification
\* for its reel, whichever the point of the failure, the steps before the
\* first stage of the pipeline included.
C30_EveryFailedAttemptNotifies ==
    pc = "threw" => \E i \in DOMAIN sent : sent[i].status = "failed"

\* ---- two jobs in the queue ----

\* The client, answered, posts the fields of another reel.
NextRequest ==
    /\ response # NoResponse
    /\ \E j \in Jobs :
          /\ jobState[j] = "none"
          /\ body' = [reelId |-> j, videoUrl |-> "videoUrl", folderPath |-> "folderPath"]
    /\ response' = NoResponse
    /\ UNCHANGED << jobState, attemptsMade, videoUrlOk, duration, active, executions,
                    stalledCounter, dest0, videoInfo, filename, contentType, fsVars, sideVars,
                    jobOpts, jobData, pc, processingError, outcome, scratch, requestVars, dest,
                    destAtStart, stageVars, uploadVars, cleanupVars, statusVars >>

\* The executions without a fault after the start of the pipeline, of the jobs
\* of two requests; a job whose URL does not parse fails and is retried.
TwoJobsNext ==
    \/ NextRequest
    \/ \E j \in Jobs : Promote(j)
    \/ StartBadUrl
    \/ WorkerFailed
    \/ NextNoFault

TwoJobsSpec == Init /\ [][TwoJobsNext]_vars

\* The jobs whose processor has been invoked and has neither returned nor
\* thrown.
InExecution == { j \in Jobs : jobState[j] = "active" }

\* C26: at most one job is in execution at any time, and the processor is
\* invoked for a job (its number of executions grows) only in a state where no
\* job is in execution, the processor of the previous one having returned or
\* thrown.
C26_OneJobInExecutionAtATime ==
    /\ [](Cardinality(InExecution) <= 1)
    /\ [][\A j \in Jobs :
             executions'[j] # executions[j]
                => /\ InExecution = {}
                   /\ pc = "idle"
                   /\ InExecution' = {j}]_vars

C26_Witness ==
    /\ jobState["43"] = "delayed"
    /\ attemptsMade["43"] = 1
    /\ active = "42"
    /\ executions["42"] = 1
    /\ pc = "encode"

\* ---- the scratch workspaces on the disk of the host ----

\* What a call of processVideoToHLS does to the disk, several calls running at
\* once: a call by the worker and calls by the route without the queue run in
\* whatever interleaving, a retry runs after the failed attempt.
nonFsVars ==
    << jobState, attemptsMade, videoUrlOk, duration, active, executions, stalledCounter,
       dest0, videoInfo, filename, contentType, body, sideVars, apiVars, pc,
       processingError,
       outcome, scratch, requestVars, dest, destAtStart, stageVars, uploadVars,
       cleanupVars, statusVars >>

\* The names of directories under os.tmpdir().
TmpNames == { << "tmp", i >> : i \in 1..MaxRuns }

\* Faulty variant of tmpNames: one workspace path for every call.
tmpNamesFixed(used) == { << "tmp", i >> : i \in {1} }

\* The names tmp.dirSync may return: a random name, which none of its earlier
\* calls returned.
tmpNames(used) == TmpNames \ used

\* path.join(tmpDir.name, ...)
inputTmpOf(dir) == << dir, "input" >>
outputDirOf(dir) == << dir, "output" >>
masterPlaylistPathOf(dir) == << dir, "output", "master.m3u8" >>

\* The path is the directory or lies in it.
IsUnder(path, dir) == Len(path) >= Len(dir) /\ SubSeq(path, 1, Len(dir)) = dir

\* The entries of the disk at or below a path.
EntriesUnder(dir) == { e \in fsDisk : IsUnder(e.path, dir) }

Entry(path, r) == [path |-> path, by |-> r]

\* const tmpDir = tmp.dirSync(...): the directory is made.
StartRun(r) ==
    /\ runs[r].at = "none"
    /\ \E name \in tmpNames(usedNames) :
          /\ runs' = [runs EXCEPT ![r] = [at |-> "created", dir |-> name]]
          /\ usedNames' = usedNames \cup {name}
          /\ accessed' = [accessed EXCEPT ![r] = @ \cup EntriesUnder(<< name >>)]
          /\ fsDisk' = fsDisk \cup {Entry(<< name >>, r)}
    /\ UNCHANGED nonFsVars

\* ensureDir(outputDir), the download into inputTmp and the stages writing
\* below outputDir: a file written replaces the one at its path.
Produce(r) ==
    /\ runs[r].at = "created"
    /\ LET dir == runs[r].dir
           written == {inputTmpOf(dir), outputDirOf(dir), masterPlaylistPathOf(dir)}
           replaced == { e \in fsDisk : e.path \in written }
       IN  /\ fsDisk' = (fsDisk \ replaced) \cup { Entry(path, r) : path \in written }
           /\ accessed' = [accessed EXCEPT ![r] = @ \cup replaced]
    /\ runs' = [runs EXCEPT ![r].at = "produced"]
    /\ UNCHANGED << nonFsVars, usedNames >>

\* uploadToS3: readdir(outputDir, recursive) and the reading of each file.
ReadOutput(r) ==
    /\ runs[r].at = "produced"
    /\ accessed' = [accessed EXCEPT ![r] = @ \cup EntriesUnder(outputDirOf(runs[r].dir))]
    /\ runs' = [runs EXCEPT ![r].at = "unlink"]
    /\ UNCHANGED << nonFsVars, fsDisk, usedNames >>

\* A stage throws: catch, then finally.
FailRun(r) ==
    /\ runs[r].at \in {"created", "produced"}
    /\ runs' = [runs EXCEPT ![r].at = "unlink"]
    /\ UNCHANGED << nonFsVars, fsDisk, usedNames, accessed >>

\* finally: existsSync(inputTmp) and unlink(inputTmp).
UnlinkInputOfRun(r) ==
    /\ runs[r].at = "unlink"
    /\ LET found == { e \in fsDisk : e.path = inputTmpOf(runs[r].dir) }
       IN  /\ accessed' = [accessed EXCEPT ![r] = @ \cup found]
           /\ \/ fsDisk' = fsDisk \ found
              \/ found # {} /\ fsDisk' = fsDisk
    /\ runs' = [runs EXCEPT ![r].at = "removeOutput"]
    /\ UNCHANGED << nonFsVars, usedNames >>

\* finally: existsSync(outputDir) and fs.remove(outputDir), which may throw.
RemoveOutputOfRun(r) ==
    /\ runs[r].at = "removeOutput"
    /\ LET found == EntriesUnder(outputDirOf(runs[r].dir))
       IN  /\ accessed' = [accessed EXCEPT ![r] = @ \cup found]
           /\ \/ fsDisk' = fsDisk \ found
              \/ found # {} /\ fsDisk' = fsDisk
    /\ runs' = [runs EXCEPT ![r].at = "removeTmp"]
    /\ UNCHANGED << nonFsVars, usedNames >>

\* finally: tmpDir.removeCallback(), which removes the directory with what it
\* holds (unsafeCleanup) and may throw.
RemoveTmpOfRun(r) ==
    /\ runs[r].at = "removeTmp"
    /\ LET found == EntriesUnder(<< runs[r].dir >>)
       IN  /\ accessed' = [accessed EXCEPT ![r] = @ \cup found]
           /\ \/ fsDisk' = fsDisk \ found
              \/ fsDisk' = fsDisk
    /\ runs' = [runs EXCEPT ![r].at = "done"]
    /\ UNCHANGED << nonFsVars, usedNames >>

WorkspaceNext ==
    \E r \in Runs :
        \/ StartRun(r)
        \/ Produce(r)
        \/ ReadOutput(r)
        \/ FailRun(r)
        \/ UnlinkInputOfRun(r)
        \/ RemoveOutputOfRun(r)
        \/ RemoveTmpOfRun(r)

WorkspaceSpec == Init /\ [][WorkspaceNext]_vars

\* The calls that have made their workspace.
Started == { r \in Runs : runs[r].at # "none" }

\* C25: no two calls of the pipeline, running at once or one after the other,
\* have the same workspace path; the workspace of a call is made by that call;
\* and every path a call finds, reads, overwrites or deletes was made by it.
C25_WorkspaceOfItsOwn ==
    /\ \A r1, r2 \in Started : r1 # r2 => runs[r1].dir # runs[r2].dir
    /\ \A r \in Started :
          \A e \in fsDisk : e.path = << runs[r].dir >> => e.by = r
    /\ \A r \in Runs : \A e \in accessed[r] : e.by = r

C25_Witness ==
    /\ runs[1].at = "done"
    /\ Entry(masterPlaylistPathOf(runs[1].dir), 1) \in fsDisk
    /\ runs[2].at = "removeTmp"
    /\ Entry(masterPlaylistPathOf(runs[2].dir), 2) \in accessed[2]

\* The attempt at hand has failed and none of its files has been uploaded.
FailedBeforeFirstUpload ==
    /\ pc = "threw" \/ processingError # "null"
    /\ uploaded = << >>

\* C31 as stated: an attempt that fails before its first file is uploaded, the
\* failure of the uploader's credential or bucket check included, leaves the
\* destination as it was when the attempt started.
C31_FailureBeforeUploadLeavesDestination ==
    FailedBeforeFirstUpload => dest = destAtStart

\* C31 amended: an attempt that fails before its first file is uploaded has
\* written no object and has deleted none but master.mpd of its prefix, which
\* is gone once the deletion before the upload has been done; an attempt that
\* fails in a stage before that deletion leaves the destination as it was.
C31_FailureBeforeUploadDeletesOnlyStaleManifest ==
    FailedBeforeFirstUpload =>
        /\ \A o \in dest : o \in destAtStart
        /\ \A o \in destAtStart :
              o \notin dest => o.key = savePath(active) \o <<"master.mpd">>
        /\ (processingError \in PreUploadErrors \/ outcome \in PreTryErrors)
              => dest = destAtStart

C31_Witness ==
    /\ pc = "threw"
    /\ outcome = "upload"
    /\ files = << >>
    /\ uploaded = << >>
    /\ Obj(savePath(active) \o <<"master.mpd">>, "old") \in destAtStart
    /\ Obj(savePath(active) \o <<"master.mpd">>, "old") \notin dest
    /\ Obj(savePath(active) \o <<"master.m3u8">>, "old") \in dest

\* C32: whatever the answer to the request that deletes the stale manifest,
\* the step after it is the upload, no error being recorded: with the manifest
\* deleted when the request succeeded, with the bucket as it was when it failed.
C32_DeleteFailureIsSwallowed ==
    [][pc = "deleteStale" =>
          /\ pc' = "uploadCheck"
          /\ processingError' = "null"
          /\ outcome' = "none"
          /\ \/ dest' = dest
             \/ dest' = { o \in dest : o.key # savePath(active) \o <<"master.mpd">> }]_vars

\* The attempt completes although the deletion failed: master.mpd is still there.
C32_Witness ==
    /\ pc = "returned"
    /\ outcome = "result"
    /\ Obj(savePath(active) \o <<"master.mpd">>, "old") \in dest
    /\ Obj(savePath(active) \o <<"master.m3u8">>, "new") \in dest
    /\ Len(sent) = 1
    /\ sent[1].status = "done"

\* ---- processVideoToHLS of src/hlsVideoProcessor.js (the CommonJS variant) ----

\* A call of this variant changes none of the variables of the other one.
nonCjsVars ==
    << jobState, attemptsMade, videoUrlOk, duration, active, executions, stalledCounter,
       dest0, videoInfo, filename, contentType, body, fsVars, listVars, direct, apiVars,
       pc, processingError, outcome, scratch, requestVars, dest, destAtStart, stageVars,
       uploadVars, cleanupVars, statusVars >>

\* The names bound at the top level of the file.
ModuleNames ==
    { "fs", "path", "exec", "promisify", "execAsync", "tmp", "axios", "ffmpeg",
      "ffmpegStatic", "Logger", "Upload", "S3", "s3", "QUALITY_CONFIGS",
      "processVideoToHLS", "createMasterPlaylist", "uploadToS3", "getContentType",
      "getVideoInfo" }

\* The parameters and the locals of its functions.
LocalNames ==
    [ processVideoToHLS |->
          { "s3Url", "savePath", "reelId", "url", "bucket", "key", "baseName", "logger",
            "tmpDir", "inputTmp", "outputDir" },
      createMasterPlaylist |-> { "basePath", "outputPath", "playlistContent" },
      uploadToS3 |-> { "localPath", "bucket", "s3Path", "files" } ]

\* The name resolves in the body of the function; a use of one that does not
\* throws a ReferenceError.
InScope(name, fn) == name \in (LocalNames[fn] \cup ModuleNames)

\* A status request: the status it carries and whether the server answered 2xx.
CjsPost(status, ok) == [status |-> status, ok |-> ok]

\* How the promise of the call settles, given the completion of its
\* try statement.
CjsSettled(completion) == IF completion = "result" THEN "returned" ELSE "threw"

\* The awaits of the try block that reject with an error of their own.
CjsFallible ==
    { "ensureDir", "download", "probe", "thumbnail", "qualityDirs", "encode", "segment" }

\* Lines 41-55: the URL parses, the log file opens, tmp.dirSync makes the
\* workspace.
CjsCall ==
    /\ cjs.pc = "idle"
    /\ cjs' = [cjs EXCEPT !.pc = "ensureDir"]
    /\ UNCHANGED nonCjsVars

\* One of them throws: the statement is before the try, nothing catches it.
CjsCallThrows ==
    /\ cjs.pc = "idle"
    /\ cjs' = [cjs EXCEPT !.pc = CjsSettled("start"), !.completion = "start"]
    /\ UNCHANGED nonCjsVars

\* await fs.ensureDir(outputDir)
CjsEnsureDir ==
    /\ cjs.pc = "ensureDir"
    /\ cjs' = [cjs EXCEPT !.pc = "download", !.outputDir = TRUE]
    /\ UNCHANGED nonCjsVars

\* await axios({ method: 'get', ... }): the response arrives. No interceptor
\* is installed in this file: a request is made once.
CjsDownload ==
    /\ cjs.pc = "download"
    /\ cjs' = [cjs EXCEPT !.pc = "pipe"]
    /\ UNCHANGED nonCjsVars

\* The writer emits 'finish'.
CjsPipe ==
    /\ cjs.pc = "pipe"
    /\ cjs' = [cjs EXCEPT !.pc = "probe", !.inputTmp = TRUE]
    /\ UNCHANGED nonCjsVars

\* The writer emits 'error', having created the file or not.
CjsPipeWriterError ==
    /\ cjs.pc = "pipe"
    /\ \E made \in BOOLEAN :
          cjs' = [cjs EXCEPT !.pc = "catch", !.error = "pipe", !.inputTmp = made]
    /\ UNCHANGED nonCjsVars

\* The response stream emits 'error': nothing listens, the promise never
\* settles.
CjsPipeStreamError ==
    /\ cjs.pc = "pipe"
    /\ cjs' = [cjs EXCEPT !.pc = "hung", !.inputTmp = TRUE]
    /\ UNCHANGED nonCjsVars

\* await getVideoInfo(inputTmp)
CjsGetVideoInfo ==
    /\ cjs.pc = "probe"
    /\ cjs' = [cjs EXCEPT !.pc = "thumbnail"]
    /\ UNCHANGED nonCjsVars

\* The screenshot.
CjsThumbnail ==
    /\ cjs.pc = "thumbnail"
    /\ cjs' = [cjs EXCEPT !.pc = "qualityDirs"]
    /\ UNCHANGED nonCjsVars

\* The directory of each quality.
CjsQualityDirs ==
    /\ cjs.pc = "qualityDirs"
    /\ cjs' = [cjs EXCEPT !.pc = "encode", !.k = 1]
    /\ UNCHANGED nonCjsVars

\* ffmpeg ... .save(outputPath) of QUALITY_CONFIGS[k]
CjsEncode ==
    /\ cjs.pc = "encode"
    /\ cjs' = [cjs EXCEPT !.pc = "segment"]
    /\ UNCHANGED nonCjsVars

\* await execAsync(ffmpegCmd) of QUALITY_CONFIGS[k], then the next quality or
\* the master playlist.
CjsSegment ==
    /\ cjs.pc = "segment"
    /\ cjs' = IF cjs.k < Len(QUALITY_CONFIGS)
                THEN [cjs EXCEPT !.pc = "encode", !.k = cjs.k + 1]
                ELSE [cjs EXCEPT !.pc = "master"]
    /\ UNCHANGED nonCjsVars

\* An await of the try block rejects: control goes to the catch clause with
\* the error of the stage.
CjsStageThrows ==
    /\ cjs.pc \in CjsFallible
    /\ cjs' = [cjs EXCEPT !.pc = "catch", !.error = cjs.pc]
    /\ UNCHANGED nonCjsVars

\* await createMasterPlaylist(outputDir, masterPlaylistPath): the function
\* builds the text and calls logger.info before it writes the file. logger is
\* a local of processVideoToHLS, so the call throws and the promise rejects.
\* Control therefore never goes past line 172: the deletion of master.mpd,
\* uploadToS3 and the return statement have no action.
CjsCreateMasterPlaylist ==
    /\ cjs.pc = "master"
    /\ cjs' = IF InScope("logger", "createMasterPlaylist")
                THEN [cjs EXCEPT !.pc = "deleteStale"]
                ELSE [cjs EXCEPT !.pc = "catch", !.error = "ReferenceError"]
    /\ UNCHANGED nonCjsVars

\* catch (error): the 'failed' status is posted and awaited, then the error is
\* thrown again; the finally clause runs before it leaves the function.
CjsCatchPost ==
    /\ cjs.pc = "catch"
    /\ cjs' = [cjs EXCEPT !.pc = "unlink", !.completion = cjs.error,
                          !.posts = Append(cjs.posts, CjsPost("failed", TRUE))]
    /\ UNCHANGED nonCjsVars

\* The awaited request rejects inside the catch clause: its error is the one
\* thrown, `throw error` is not reached.
CjsCatchPostRejects ==
    /\ cjs.pc = "catch"
    /\ cjs' = [cjs EXCEPT !.pc = "unlink", !.completion = "statusUpdate",
                          !.posts = Append(cjs.posts, CjsPost("failed", FALSE))]
    /\ UNCHANGED nonCjsVars

\* if (fs.existsSync(inputTmp)) await fs.unlink(inputTmp)
CjsUnlink ==
    /\ cjs.pc = "unlink"
    /\ cjs' = [cjs EXCEPT !.pc = "remove", !.inputTmp = FALSE]
    /\ UNCHANGED nonCjsVars

\* The unlink rejects: the rest of the inner try is skipped.
CjsUnlinkThrows ==
    /\ cjs.pc = "unlink"
    /\ cjs.inputTmp
    /\ cjs' = [cjs EXCEPT !.pc = "cleanupCatch"]
    /\ UNCHANGED nonCjsVars

\* if (fs.existsSync(outputDir)) await fs.remove(outputDir)
CjsRemove ==
    /\ cjs.pc = "remove"
    /\ cjs' = [cjs EXCEPT !.pc = "removeCallback", !.outputDir = FALSE]
    /\ UNCHANGED nonCjsVars

CjsRemoveThrows ==
    /\ cjs.pc = "remove"
    /\ cjs.outputDir
    /\ cjs' = [cjs EXCEPT !.pc = "cleanupCatch"]
    /\ UNCHANGED nonCjsVars

\* tmpDir.removeCallback()
CjsRemoveCallback ==
    /\ cjs.pc = "removeCallback"
    /\ cjs' = [cjs EXCEPT !.pc = "postDone"]
    /\ UNCHANGED nonCjsVars

CjsRemoveCallbackThrows ==
    /\ cjs.pc = "removeCallback"
    /\ cjs' = [cjs EXCEPT !.pc = "cleanupCatch"]
    /\ UNCHANGED nonCjsVars

\* The last statement of the inner try posts 'done', whatever the try block of
\* the pipeline did.
CjsPostDone ==
    /\ cjs.pc = "postDone"
    /\ cjs' = [cjs EXCEPT !.pc = "end",
                          !.posts = Append(cjs.posts, CjsPost("done", TRUE))]
    /\ UNCHANGED nonCjsVars

CjsPostDoneRejects ==
    /\ cjs.pc = "postDone"
    /\ cjs' = [cjs EXCEPT !.pc = "cleanupCatch",
                          !.posts = Append(cjs.posts, CjsPost("done", FALSE))]
    /\ UNCHANGED nonCjsVars

\* catch (cleanupError): posts 'failed'.
CjsCleanupCatchPost ==
    /\ cjs.pc = "cleanupCatch"
    /\ cjs' = [cjs EXCEPT !.pc = "end",
                          !.posts = Append(cjs.posts, CjsPost("failed", TRUE))]
    /\ UNCHANGED nonCjsVars

\* The request rejects inside the finally clause: its error replaces the
\* completion the try statement had.
CjsCleanupCatchPostRejects ==
    /\ cjs.pc = "cleanupCatch"
    /\ cjs' = [cjs EXCEPT !.pc = "end", !.completion = "statusUpdate",
                          !.posts = Append(cjs.posts, CjsPost("failed", FALSE))]
    /\ UNCHANGED nonCjsVars

\* finally { await logger.end() }, and the promise of the call settles.
CjsEnd ==
    /\ cjs.pc = "end"
    /\ cjs' = [cjs EXCEPT !.pc = CjsSettled(cjs.completion)]
    /\ UNCHANGED nonCjsVars

CjsNext ==
    \/ CjsCall
    \/ CjsCallThrows
    \/ CjsEnsureDir
    \/ CjsDownload
    \/ CjsPipe
    \/ CjsPipeWriterError
    \/ CjsPipeStreamError
    \/ CjsGetVideoInfo
    \/ CjsThumbnail
    \/ CjsQualityDirs
    \/ CjsEncode
    \/ CjsSegment
    \/ CjsStageThrows
    \/ CjsCreateMasterPlaylist
    \/ CjsCatchPost
    \/ CjsCatchPostRejects
    \/ CjsUnlink
    \/ CjsUnlinkThrows
    \/ CjsRemove
    \/ CjsRemoveThrows
    \/ CjsRemoveCallback
    \/ CjsRemoveCallbackThrows
    \/ CjsPostDone
    \/ CjsPostDoneRejects
    \/ CjsCleanupCatchPost
    \/ CjsCleanupCatchPostRejects
    \/ CjsEnd

CjsSpec == Init /\ [][CjsNext]_vars

\* The try block of the call completed normally or by its return statement.
CjsPipelineSucceeded == cjs.error = "null" /\ cjs.completion = "result"

CjsPosted(status) == \E i \in 1..Len(cjs.posts) : cjs.posts[i].status = status

\* C33: a call of the CommonJS variant posts 'done' only when its pipeline
\* succeeded, and never posts both 'failed' and 'done'.
C33_DoneOnlyAfterSuccess ==
    /\ CjsPosted("done") => CjsPipelineSucceeded
    /\ ~(CjsPosted("failed") /\ CjsPosted("done"))

\* The call went into its try statement and its promise has settled.
CjsSettledAfterTry == cjs.pc \in {"returned", "threw"} /\ cjs.completion # "start"

\* C34: in the CommonJS variant a status request that fails changes nothing of
\* how the call ends: a call whose pipeline failed rejects with the error of
\* the stage that failed, a call whose pipeline succeeded returns its result.
C34_StatusFailureKeepsOutcome ==
    CjsSettledAfterTry =>
        IF cjs.error # "null"
          THEN cjs.pc = "threw" /\ cjs.completion = cjs.error
          ELSE cjs.pc = "returned" /\ cjs.completion = "result"

\* No operation outside the program failed during the call: no stage rejected
\* with an error of its own, no cleanup step threw, every status request was
\* answered.
CjsNoFault ==
    /\ cjs.error \notin (CjsFallible \cup {"pipe"})
    /\ cjs.completion # "start"
    /\ \A i \in 1..Len(cjs.posts) : cjs.posts[i].ok
    /\ \A i \in 1..Len(cjs.posts) :
          cjs.posts[i].status = "failed" => i = 1 /\ cjs.error # "null"

\* C35: a call of the CommonJS variant during which download, probe,
\* thumbnail, every encode, every segmenting and every request succeed returns
\* the result object; it does not throw.
C35_FaultFreeCallReturns ==
    (cjs.pc \in {"returned", "threw"} /\ CjsNoFault) =>
        cjs.pc = "returned" /\ cjs.completion = "result"

\* ---- GET /jobs (index.js) ----

nonListVars ==
    << jobState, attemptsMade, videoUrlOk, duration, active, executions, stalledCounter,
       dest0, videoInfo, filename, contentType, body, fsVars, cjs, direct, apiVars, pc,
       processingError, outcome, scratch, requestVars, dest, destAtStart, stageVars,
       uploadVars, cleanupVars, statusVars >>

\* The most jobs the queue holds when the request arrives.
MaxListed == 3

\* The states the jobs are in when the request arrives; a completed job is
\* removed (removeOnComplete).
ListedStates == { "active", "waiting", "failed" }

\* A job of the queue, as the getters return it.
ListedJob(id, timestamp, state) ==
    [ id |-> id, timestamp |-> timestamp, state |-> state,
      failedReason |-> IF state = "failed" THEN "reason" ELSE Undefined,
      attemptsMade |-> IF state = "failed" THEN 3 ELSE 0 ]

\* The queues the request may find: up to MaxListed jobs, added at different
\* milliseconds.
QueueContents ==
    UNION { { q \in [1..n -> { ListedJob(0, t, st) : t \in 1..MaxListed, st \in ListedStates }] :
                \A a, b \in 1..n : a # b => q[a].timestamp # q[b].timestamp } :
            n \in 0..MaxListed }

\* The values a numeric query parameter takes: a parameter the client supplies
\* arrives as a string, here one of digits.
QueryLimits == { Absent, << "1" >>, << "2" >> }
QueryOffsets == { Absent, << "0" >>, << "1" >> }
QueryStatuses == { "all", "active", "waiting", "failed", "delayed", "completed" }

\* The decimal digits of a number, as String(n) writes them.
DigitOf(d) == CHOOSE c \in Digits : DigitValue(c) = d
RECURSIVE NumberToString(_)
NumberToString(n) ==
    IF n < 10 THEN << DigitOf(n) >>
    ELSE NumberToString(n \div 10) \o << DigitOf(n % 10) >>

\* The JavaScript values the handler computes with: a number or a string,
\* either one held with its decimal digits.
JsNumber(n) == [isString |-> FALSE, digits |-> NumberToString(n)]
JsString(str) == [isString |-> TRUE, digits |-> str]

\* const { limit = 100 } = req.query: the default applies to a parameter that
\* is undefined, a supplied one stays the string it is.
WithDefault(param, default) ==
    IF param = Absent THEN JsNumber(default) ELSE JsString(param)

\* ToIntegerOrInfinity of a number or of a string of digits.
ToIntegerOrInfinity(v) == ParseDigits(v.digits, 0)

\* a + b: the sum of two numbers, the concatenation when either is a string.
JsPlus(a, b) ==
    IF a.isString \/ b.isString
    THEN JsString(a.digits \o b.digits)
    ELSE JsNumber(ToIntegerOrInfinity(a) + ToIntegerOrInfinity(b))

\* arr.slice(start, end) with arguments that are not negative.
Slice(arr, start, end) ==
    LET from == IF ToIntegerOrInfinity(start) < Len(arr)
                  THEN ToIntegerOrInfinity(start) ELSE Len(arr)
        to == IF ToIntegerOrInfinity(end) < Len(arr)
                THEN ToIntegerOrInfinity(end) ELSE Len(arr)
    IN  SubSeq(arr, from + 1, to)

\* videoQueue.getActive(), getWaiting(), ...: the jobs in one state.
GetInState(jobs, state) == SelectSeq(jobs, LAMBDA job : job.state = state)

\* The switch on status.
SelectedJobs(jobs, status) ==
    IF status \in { "active", "waiting", "failed", "delayed", "completed" }
    THEN GetInState(jobs, status)
    ELSE GetInState(jobs, "active") \o GetInState(jobs, "waiting")
           \o GetInState(jobs, "failed") \o GetInState(jobs, "delayed")
           \o GetInState(jobs, "completed")

\* jobs.sort((a, b) => b.timestamp - a.timestamp): a stable sort, here by
\* insertion.
RECURSIVE InsertNewestFirst(_, _)
InsertNewestFirst(sorted, job) ==
    IF sorted = << >> THEN << job >>
    ELSE IF Head(sorted).timestamp >= job.timestamp
         THEN << Head(sorted) >> \o InsertNewestFirst(Tail(sorted), job)
         ELSE << job >> \o sorted

RECURSIVE SortNewestFirst(_)
SortNewestFirst(jobs) ==
    IF jobs = << >> THEN << >>
    ELSE InsertNewestFirst(SortNewestFirst(SubSeq(jobs, 1, Len(jobs) - 1)),
                           jobs[Len(jobs)])

\* The fields of a job in the answer.
FormatJob(job) ==
    [ id |-> job.id, state |-> job.state, timestamp |-> job.timestamp,
      failedReason |-> job.failedReason, attemptsMade |-> job.attemptsMade,
      attempts |-> 3 ]

\* The body of the 200 answer.
JobsAnswer(jobs, q) ==
    LET limit == WithDefault(q.limit, 100)
        offset == WithDefault(q.offset, 0)
        selected == SelectedJobs(jobs, q.status)
        paginatedJobs == Slice(SortNewestFirst(selected), offset, JsPlus(offset, limit))
    IN  [ code |-> 200,
          total |-> Len(selected),
          limit |-> parseInt(limit.digits),
          offset |-> parseInt(offset.digits),
          jobs |-> [i \in 1..Len(paginatedJobs) |-> FormatJob(paginatedJobs[i])] ]

\* The queue and the request the handler is observed with.
ListInit ==
    /\ InitCommon
    /\ InitSource
    /\ InitContentType
    /\ InitBody
    /\ \E q \in QueueContents : queued = [i \in 1..Len(q) |-> [q[i] EXCEPT !.id = i]]
    /\ query \in [status : QueryStatuses, limit : QueryLimits, offset : QueryOffsets]
    /\ listing = << >>

\* app.get('/jobs'): the getters answer.
GetJobs ==
    /\ listing = << >>
    /\ listing' = << JobsAnswer(queued, query) >>
    /\ UNCHANGED << nonListVars, queued, query >>

\* A getter rejects: the catch clause answers 500.
GetJobsQueueError ==
    /\ listing = << >>
    /\ listing' = << [code |-> 500, total |-> 0, limit |-> 0, offset |-> 0, jobs |-> << >>] >>
    /\ UNCHANGED << nonListVars, queued, query >>

ListNext ==
    \/ GetJobs
    \/ GetJobsQueueError

ListSpec == ListInit /\ [][ListNext]_vars

\* What the request asks for: the number a parameter writes, or its default.
Asked(param, default) == IF param = Absent THEN default ELSE parseInt(param)

\* The jobs of the queue in the state the request selects.
InSelectedState(job) == query.status = "all" \/ job.state = query.status

\* How many selected jobs are newer than the one with this id.
NewerThan(id) ==
    Cardinality({ i \in 1..Len(queued) :
                    /\ InSelectedState(queued[i])
                    /\ queued[i].timestamp > queued[id].timestamp })

NumSelected == Cardinality({ i \in 1..Len(queued) : InSelectedState(queued[i]) })

\* C36: the 200 answer of GET /jobs holds at most `limit` jobs: the selected
\* jobs at positions offset .. offset + limit - 1 of the newest-first order,
\* for supplied and for default limit and offset, each with its failure reason
\* and its attemptsMade.
C36_JobsPage ==
    (listing # << >> /\ listing[1].code = 200) =>
        LET limit == Asked(query.limit, 100)
            offset == Asked(query.offset, 0)
            page == listing[1].jobs
            rest == IF NumSelected > offset THEN NumSelected - offset ELSE 0
        IN  /\ Len(page) <= limit
            /\ Len(page) = IF rest < limit THEN rest ELSE limit
            /\ \A i \in 1..Len(page) :
                  /\ InSelectedState(queued[page[i].id])
                  /\ NewerThan(page[i].id) = offset + i - 1
                  /\ page[i].failedReason = queued[page[i].id].failedReason
                  /\ page[i].attemptsMade = queued[page[i].id].attemptsMade

\* ---- POST /create-job/reels-processing-without-queue (index.js) ----

\* What the handler leaves alone when it answers or logs.
nonDirectVars ==
    << jobState, attemptsMade, videoUrlOk, duration, active, executions, stalledCounter,
       dest0, videoInfo, filename, contentType, body, fsVars, cjs, listVars, apiVars, pc,
       processingError, outcome, scratch, requestVars, dest, destAtStart, stageVars,
       uploadVars, cleanupVars, statusVars >>

\* The request arrives while no pipeline runs: the handler takes the three
\* fields of req.body and awaits processVideoToHLS(videoUrl, folderPath,
\* reelId), the function the processor of the worker calls. The URL parses or
\* not, the video has some duration.
DirectRequest ==
    /\ direct.at = "idle"
    /\ pc = "idle"
    /\ active = NoJob
    /\ \E j \in Jobs :
          /\ body.reelId = j
          /\ active' = j
          /\ \E ok \in BOOLEAN : videoUrlOk' = [videoUrlOk EXCEPT ![j] = ok]
          /\ \E d \in 1..MaxDuration : duration' = [duration EXCEPT ![j] = d]
    /\ pc' = "start"
    /\ direct' = [direct EXCEPT !.at = "awaiting"]
    /\ UNCHANGED << jobState, attemptsMade, executions, stalledCounter, dest0, videoInfo,
                    filename, contentType, body, fsVars, cjs, listVars, apiVars,
                    processingError, outcome, scratch, requestVars, dest, destAtStart,
                    stageVars, uploadVars, cleanupVars, statusVars >>

\* The steps of processVideoToHLS.
PipelineStep ==
    \/ StartBadUrl
    \/ StartTmpFail
    \/ Start
    \/ EnsureOutputDir
    \/ EnsureOutputDirFail
    \/ DownloadRequest
    \/ DownloadRetry
    \/ DownloadRequestFail
    \/ DownloadPipe
    \/ DownloadWriterError
    \/ DownloadStreamError
    \/ Probe
    \/ ProbeFail
    \/ Thumbnail
    \/ ThumbnailFail
    \/ QualityDirs
    \/ QualityDirsFail
    \/ Encode
    \/ EncodeFail
    \/ Segment
    \/ SegmentFail
    \/ MasterPlaylist
    \/ MasterPlaylistFail
    \/ DeleteStale
    \/ DeleteStaleFail
    \/ UploadCheck
    \/ UploadCheckFail
    \/ UploadFile
    \/ UploadFileFail
    \/ UploadDone
    \/ Verify
    \/ PostFailed
    \/ PostFailedRetry
    \/ PostFailedAbandon
    \/ Finally
    \/ UnlinkInput
    \/ UnlinkInputFail
    \/ UnlinkInputSkip
    \/ RemoveOutput
    \/ RemoveOutputFail
    \/ RemoveOutputSkip
    \/ RemoveTmpDir
    \/ RemoveTmpDirFail
    \/ PostDone
    \/ PostDoneRetry
    \/ PostDoneAbandon

\* The awaited call returned: return res.json({ success: true, ... }).
DirectRespond ==
    /\ direct.at = "awaiting"
    /\ pc = "returned"
    /\ direct' = [at |-> "finished", code |-> 200]
    /\ UNCHANGED nonDirectVars

\* The awaited call threw: catch (error) { console.error(...) }, and the
\* handler ends.
DirectCatch ==
    /\ direct.at = "awaiting"
    /\ pc = "threw"
    /\ direct' = [direct EXCEPT !.at = "finished"]
    /\ UNCHANGED nonDirectVars

DirectNext ==
    \/ DirectRequest
    \/ PipelineStep
    \/ DirectRespond
    \/ DirectCatch

DirectSpec == Init /\ [][DirectNext]_vars

\* C37: a request to POST /create-job/reels-processing-without-queue gets an
\* HTTP response, when the pipeline succeeds and when it throws: once its
\* handler has ended, a response has been sent.
C37_DirectRequestIsAnswered ==
    direct.at = "finished" => direct.code # NoResponse

====
